---- MODULE Spec2Model ----
(***************************************************************************)
(* State-machine model of the redb mesh service (services/mesh):           *)
(*   - the session reliability layer (session/src/reliability.rs) over the *)
(*     in-memory WAL and dedup backends (storage/src/backend/mem.rs);      *)
(*   - the message queue, tracker and data service of the gRPC crate, the  *)
(*     session manager and the session frame pump.                         *)
(* Each part has its own specification over the shared variables.          *)
(***************************************************************************)
EXTENDS Integers, Sequences, FiniteSets, TLC

(* ---------------------------- bounds ---------------------------------- *)
\* number of send_data calls explored
MaxSends == 3
\* number of send_data calls in the reconnect scenario (messages 1..5)
ScenarioSends == 5
\* number of RESUME handshakes explored (initial connection + one reconnect)
MaxResumes == 2
\* ACK frames simultaneously in flight
MaxAcksInFlight == 1
\* payload sizes offered to send_data
SmallPayload == 1
BigPayload == 100
\* default_recv_window the manager is constructed with (room for three small frames)
RecvWindow == 270
\* concurrent callers of process_data_frame
NumRecvTasks == 2
\* nodes running the full stack; one further node is known but has no session,
\* and one more is absent from the topology
NumNodes == 2
\* send calls accepted by the mesh as a whole
MaxMsgs == 1
\* messages simultaneously held by the channels and sockets of the mesh
MaxInFlight == 2
\* the subscriber's delivery counter saturates here
DeliveryCountCap == 2
\* managers flooding broadcasts to each other
NumBNodes == 3
\* broadcast messages put on the outbound channels in total
MaxBroadcasts == 2
\* broadcast_id values run over None and 0..MaxBroadcastId
MaxBroadcastId == 1
\* broadcast_ttl values run over None and 0..MaxBroadcastTtl
MaxBroadcastTtl == 1
\* nodes of the link-state graph: the local node 1, its peers 2 and 3, and node 4 behind them
NumTNodes == 4
\* width of a sequence number in bits (u64 in the program, narrowed so that the
\* wrapping subtraction of is_newer_than meets its wraparound)
SeqBits == 3
\* consecutive sequence numbers offered by received updates, starting one before the wrap
SeqWindow == 2
\* seconds the system clock advances in one step, and the number of such steps
ClockStep == 301
MaxTicks == 1
\* ttl values of received updates run over 0..MaxTopoTtl
MaxTopoTtl == 2
\* calls of update_local_neighbors
MaxLocalUpdates == 1
\* session tasks of the local node, each on a connection of its own
NumSessions == 2
\* node IDs a peer can present, in its certificate and in its HELLO frames
NumPeerIds == 2
\* HELLO frames one session reads
MaxHellos == 2
\* nodes the failure tracker hears about, as destinations and as next hops
NumFNodes == 2
\* outbound messages the manager routes while the tracker is watched
MaxRouted == 5
\* seconds the monotonic clock advances in one step, and the number of such steps
InstantStep == 31
MaxInstantSteps == 1

\* storage interface: ids offered to the calls, appends per run
MaxStoreId == 3
MaxAppends == 2

\* acknowledgements a node's clients send for messages they were never handed
MaxStrayAcks == 1

\* retry queue under time: messages queued, ticks of the retry processor,
\* delivery status reports handled
MaxQueued == 2
MaxQueueTicks == 3
MaxReports == 2

\* message tracker under time: records tracked, runs of the cleanup task
MaxTracked == 2
MaxCleanupTicks == 6

\* routing table under refresh: refreshes and routing decisions per run
MaxRefreshes == 2
MaxDecisions == 2

\* retry processor against delivery feedback: messages queued, retries of one message
MaxRaceMsgs == 2
MaxRaceRetries == 2

\* local topology updates after session events: events handled per run
MaxEvents == 3

\* frames on their way into a session's read buffer: frames the peer sends,
\* and the longest frame body in bytes
MaxReadFrames == 3
MaxBodyLen == 2

(* ------------------------ program constants --------------------------- *)
FAST_HEADER_SIZE == 48
\* u32 length prefix in front of every frame and in front of the meta block
LEN_PREFIX_SIZE == 4
\* CBOR encoding of {"content-type": "application/x-data"}: 1 + 13 + 19 bytes
DATA_META_LEN == 33
\* 16 * 1024 * 1024, the limit send_data passes to FrameBuilder::build
SEND_MAX_FRAME == 16777216
\* MemoryDedup::with_default_window
DEDUP_WINDOW == 65536
\* MessageQueueConfig::default, in seconds where a duration
max_retry_attempts == 10
base_retry_interval == 1
max_retry_interval == 60
\* FastHeader::new
DEFAULT_TTL == 16
\* the ttl handle_outbound_message puts into every RoutingContext
ROUTING_CONTEXT_TTL == 64
\* link_state.rs
MAX_TOPOLOGY_AGE_SECS == 300
DEFAULT_TOPOLOGY_TTL == 8
\* the cost main gives every NeighborInfo it builds
DEFAULT_LINK_COST == 100
\* RoutingFailureTracker::new(3, Duration::from_secs(30)) in SessionManager::new
failure_threshold == 3
failure_window == 30

\* MessageQueueConfig::default: seconds between two runs of the retry processor
retry_check_interval == 5

\* message_tracker.rs: retention of completed records and cleanup period, seconds
CLEANUP_RETENTION_SECONDS == 300
CLEANUP_INTERVAL_SECONDS == 60

(* ------------------------- reliability state -------------------------- *)
VARIABLES
    next_msg_id,        \* SendState.next_msg_id
    cum_acked,          \* SendState.cum_acked
    credits_bytes,      \* SendState.credits_bytes
    pending_frames,     \* SendState.pending_frames: seq of [msg_id, len]
    wal_entries,        \* MemoryWal.entries[peer]: seq of [msg_id, len]
    wal_last_appended,  \* MemoryWal.last_appended[peer]
    wal_ack_state,      \* MemoryWal.ack_state[peer].cum_acked
    dedup_cum,          \* MemoryDedup.cum_processed[peer]
    dedup_gaps,         \* MemoryDedup.gap_window[peer]
    recv_cum_processed, \* RecvState.cum_processed
    credits_avail,      \* RecvState.credits_avail
    ack_pending,        \* RecvState.ack_pending
    connected,          \* a transport connection to the peer exists
    socket,             \* Data frames written to the current connection, in write order
    rx_pos,             \* how many frames of socket the receiver has read
    acks,               \* ACK frames in flight to the sender
    task,               \* position of each process_data_frame caller
    upward,             \* msg_id -> number of times process_data_frame returned true
    resumes,            \* RESUME handshakes handled so far
    resume_snapshot     \* what the sender knew when it handled the last RESUME

relVars == <<next_msg_id, cum_acked, credits_bytes, pending_frames, wal_entries,
             wal_last_appended, wal_ack_state, dedup_cum, dedup_gaps,
             recv_cum_processed, credits_avail, ack_pending, connected, socket,
             rx_pos, acks, task, upward, resumes, resume_snapshot>>

(* ----------------------------- mesh state ------------------------------ *)
VARIABLES
    msg_id_gen,         \* MessageIdGenerator of each node: the next id
    records,            \* MessageTracker.records of each node: msg_id -> record
    pending_messages,   \* MessageQueue.pending_messages of each node: msg_id -> QueuedMessage
    outbound,           \* the outbound_tx channel into each node's SessionManager
    link,               \* frames written to the socket from one node to another, not yet read
    delivery,           \* the delivery_tx channel into each node's data service
    subscribed,         \* the node's DeliveryQueue has a subscriber
    received,           \* <<src, msg_id>> -> times the node's subscriber was handed the message
    acked_messages,     \* MeshDataService.acked_messages; the program stores () per key, the
                        \* model keeps the success flag of the Ack request in its place
    waiter              \* send calls blocked in wait_for_status, and what they returned

meshVars == <<msg_id_gen, records, pending_messages, outbound, link, delivery, subscribed,
              received, acked_messages, waiter>>

\* Broadcast flooding between the SessionManagers of a small mesh
VARIABLES
    bsessions,          \* SessionManager.sessions of each node: the peers it has a session to
    broadcast_cache,    \* SessionManager.broadcast_cache of each node: set of <<src, broadcast_id>>
    boutbound,          \* the outbound_tx channel of each node, holding broadcast messages
    message_tx,         \* SessionInfo.message_tx of the session from one node to a peer
    bsocket,            \* Data frames written from one node to a peer and not yet read
    bdelivery,          \* <<src, payload>> -> times the node's delivery channel was handed it
    bforwarded,         \* the messages a manager has put on a session's message_tx so far
    bcalls              \* broadcast calls made so far

bcastVars == <<bsessions, broadcast_cache, boutbound, message_tx, bsocket, bdelivery,
               bforwarded, bcalls>>

\* The TopologyDatabase and RoutingTable of the local node, and what its manager
\* floods to its sessions
VARIABLES
    now,                \* SystemTime::now() in seconds
    nodes,              \* TopologyDatabase.nodes: node_id -> NodeInfo
    routes,             \* TopologyDatabase.routes: dst_node -> ComputedRoute
    local_sequence,     \* TopologyDatabase.local_sequence
    table_routes,       \* RoutingTable.routes: dst_node -> HopSet
    topology_tx,        \* what the last topology update taken from topology_update_rx put on
                        \* the sessions' message_tx, and the session it had arrived on
    highest_accepted,   \* history: originator -> the largest sequence_number accepted from it
    local_updates       \* calls of update_local_neighbors so far

topoVars == <<now, nodes, routes, local_sequence, table_routes, topology_tx,
              highest_accepted, local_updates>>

\* The session tasks of the local node, the global session registry and the
\* manager's sessions map
VARIABLES
    spc,                \* where each session task is: "idle", "running", "ended" (the frame
                        \* pump was left and the cleanup ran) or "failed" (returned an error)
    verify_node_id,     \* SessionConfig.verify_node_id of each session
    tls_node_id,        \* the node ID taken from the peer certificate, if any
    peer_node_id,       \* SessionState.remote_node_id
    hellos,             \* the src_node of the HELLO frames each session has read
    registry,           \* GLOBAL_SESSION_REGISTRY: node_id -> the session whose channel it holds
    manager_sessions,   \* SessionManager.sessions: node_id -> the session whose channel it holds
    event_rx,           \* the SessionEvents sent and not yet handled by the manager
    connected_sent,     \* history: the remote_node_id of each Connected event a session sent
    disconnected_sent   \* history: the remote_node_id of each Disconnected event it sent

sessVars == <<spc, verify_node_id, tls_node_id, peer_node_id, hellos, registry,
              manager_sessions, event_rx, connected_sent, disconnected_sent>>

\* The RoutingFailureTracker of one SessionManager and what it told the event handler
VARIABLES
    instant,            \* Instant::now() in seconds
    failures,           \* RoutingFailureTracker.failures: node -> FailureInfo
    routed,             \* outbound messages handled so far
    last_routed,        \* the destination of the last message handled and whether it was sent on
    notifications,      \* what handling the last message told the event handler
    interrupted         \* history: the nodes reported interrupted and not recovered since

failVars == <<instant, failures, routed, last_routed, notifications, interrupted>>

\* storage interface: the ids that were passed to Dedup::mark_processed
VARIABLES marked_ids

storeVars == <<marked_ids>>

\* The MessageQueue of the local node under time, for messages to one remote node
VARIABLES
    queue_now,          \* Instant::now() in seconds since the queue was created
    queued_msgs,        \* MessageQueue.pending_messages: msg_id -> [retry_count, next_retry_at]
    waiting_messages,   \* MessageQueue.waiting_messages: WaitCondition -> msg ids
    queue_status,       \* MessageTracker status of each queued message
    routable,           \* the routing table of the local manager has a route to the node
    remote_subscribed,  \* the remote node has a subscriber
    reports             \* delivery status reports handled so far

queueVars == <<queue_now, queued_msgs, waiting_messages, queue_status, routable,
               remote_subscribed, reports>>

\* The MessageTracker of a node under time
VARIABLES
    track_now,          \* Instant::now() in seconds since the tracker was created
    tracked,            \* MessageTracker.records: msg_id -> [status, created_at, completed_at]
    tracked_next        \* the next message id the node tracks

trackVars == <<track_now, tracked, tracked_next>>

\* The RoutingTable of the local node while a task refreshes it
VARIABLES
    rt_routes,          \* RoutingTable.routes: destination -> next hop
    rt_epoch,           \* RoutingTable.current_epoch
    rt_old,             \* the routes the table held when the last refresh started
    rt_new,             \* the computed routes the last refresh was called with
    rt_todo,            \* destinations the running refresh has not inserted yet
    rt_running,         \* a call of update_routes_from_topology is between retain and the epoch
    rt_decision,        \* <<dst, decision>> of the last call of decide
    rt_decisions        \* calls of decide so far

tableVars == <<rt_routes, rt_epoch, rt_old, rt_new, rt_todo, rt_running, rt_decision,
               rt_decisions>>

\* The retry processor of a MessageQueue step by step, next to the feedback handlers
VARIABLES
    rq_pending,         \* MessageQueue.pending_messages: msg_id -> retry_count
    rq_to_retry,        \* messages_to_retry of the running tick, not yet processed
    rq_held,            \* the queued_msg the tick removed and has not inserted again
    rq_fed,             \* msg ids whose delivered or ack feedback has been handled
    rq_next             \* the next message id queued

raceVars == <<rq_pending, rq_to_retry, rq_held, rq_fed, rq_next>>

\* The event loop of main and the tasks it spawns for Connected and Disconnected
VARIABLES
    connected_neighbors,    \* main's connected_neighbors: the node ids of the connected peers
    ev_tasks,               \* spawned tasks in spawn order: [neighbors, pc, computed_routes]
    ev_record,              \* the local node's record in the topology database
    ev_sequence,            \* TopologyDatabase.local_sequence
    ev_table                \* the routes of the routing table

evVars == <<connected_neighbors, ev_tasks, ev_record, ev_sequence, ev_table>>

\* The path of a topology update from main to the peers: the session manager's
\* two channels, its sessions map and what the peers have stored
VARIABLES
    sy_connected,       \* main's connected_neighbors
    sy_tasks,           \* the tasks main spawned for Connected: [remote_node_id, neighbors, pc]
    sy_nodes,           \* the local TopologyDatabase.nodes: node -> [sequence_number, neighbors]
    sy_sequence,        \* the local TopologyDatabase.local_sequence
    sy_event_rx,        \* SessionManager.event_rx: the Connected events main forwarded
    sy_topology_rx,     \* SessionManager.topology_update_rx
    sy_sessions,        \* SessionManager.sessions
    sy_announced,       \* the peers whose own record has arrived at the local node
    sy_peer_nodes       \* the peers' TopologyDatabase.nodes: node -> [sequence_number, neighbors]

syncVars == <<sy_connected, sy_tasks, sy_nodes, sy_sequence, sy_event_rx, sy_topology_rx,
              sy_sessions, sy_announced, sy_peer_nodes>>

\* A session's stream, its read buffer and the frames it has dispatched
VARIABLES
    rd_stream,          \* the bytes the peer has written and the session has not read yet
    read_buffer,        \* the session's read_buffer
    rd_dispatched,      \* the bodies of the frames recv_any_frame has returned, in order
    rd_sent             \* how many frames the peer has written

readVars == <<rd_stream, read_buffer, rd_dispatched, rd_sent>>

\* What the frame pumps of the sessions have passed on from Data and
\* TopologyUpdate frames
VARIABLES
    surfaced            \* history: [event, connected] for the MessageReceived and
                        \* TopologyUpdate events sent on event_tx; connected tells whether the
                        \* session had sent Connected before

pumpVars == <<surfaced>>

notRelVars == <<meshVars, bcastVars, topoVars, sessVars, failVars, storeVars, queueVars, trackVars, tableVars, raceVars, evVars, syncVars, readVars, pumpVars>>

notMeshVars == <<relVars, bcastVars, topoVars, sessVars, failVars, storeVars, queueVars, trackVars, tableVars, raceVars, evVars, syncVars, readVars, pumpVars>>

notBcastVars == <<relVars, meshVars, topoVars, sessVars, failVars, storeVars, queueVars, trackVars, tableVars, raceVars, evVars, syncVars, readVars, pumpVars>>

notTopoVars == <<relVars, meshVars, bcastVars, sessVars, failVars, storeVars, queueVars, trackVars, tableVars, raceVars, evVars, syncVars, readVars, pumpVars>>

notSessVars == <<relVars, meshVars, bcastVars, topoVars, failVars, storeVars, queueVars, trackVars, tableVars, raceVars, evVars, syncVars, readVars, pumpVars>>

notFailVars == <<relVars, meshVars, bcastVars, topoVars, sessVars, storeVars, queueVars, trackVars, tableVars, raceVars, evVars, syncVars, readVars, pumpVars>>

notStoreVars == <<relVars, meshVars, bcastVars, topoVars, sessVars, failVars, queueVars, trackVars, tableVars, raceVars, evVars, syncVars, readVars, pumpVars>>

notQueueVars == <<relVars, meshVars, bcastVars, topoVars, sessVars, failVars, storeVars, trackVars, tableVars, raceVars, evVars, syncVars, readVars, pumpVars>>

notTrackVars == <<relVars, meshVars, bcastVars, topoVars, sessVars, failVars, storeVars, queueVars, tableVars, raceVars, evVars, syncVars, readVars, pumpVars>>

notTableVars == <<relVars, meshVars, bcastVars, topoVars, sessVars, failVars, storeVars, queueVars, trackVars, raceVars, evVars, syncVars, readVars, pumpVars>>

notRaceVars == <<relVars, meshVars, bcastVars, topoVars, sessVars, failVars, storeVars, queueVars, trackVars, tableVars, evVars, syncVars, readVars, pumpVars>>

notEvVars == <<relVars, meshVars, bcastVars, topoVars, sessVars, failVars, storeVars, queueVars, trackVars, tableVars, raceVars, syncVars, readVars, pumpVars>>

notSyncVars == <<relVars, meshVars, bcastVars, topoVars, sessVars, failVars, storeVars, queueVars, trackVars, tableVars, raceVars, evVars, readVars, pumpVars>>

notReadVars == <<relVars, meshVars, bcastVars, topoVars, sessVars, failVars, storeVars, queueVars, trackVars, tableVars, raceVars, evVars, syncVars, pumpVars>>

notPumpVars == <<relVars, meshVars, bcastVars, topoVars, sessVars, failVars, storeVars, queueVars, trackVars, tableVars, raceVars, evVars, syncVars, readVars>>

vars == <<relVars, meshVars, bcastVars, topoVars, sessVars, failVars, storeVars, queueVars, trackVars, tableVars, raceVars, evVars, syncVars, readVars, pumpVars>>

MsgIds == 1..(MaxSends + ScenarioSends)
RecvTasks == 1..NumRecvTasks
PayloadLens == {SmallPayload, BigPayload}

\* Frame::encoded_size for a Data frame without hint TLV and crypto block
FrameLen(payload_len) ==
    LEN_PREFIX_SIZE + FAST_HEADER_SIZE + LEN_PREFIX_SIZE + DATA_META_LEN + payload_len

PayloadOf(frame_len) ==
    frame_len - (LEN_PREFIX_SIZE + FAST_HEADER_SIZE + LEN_PREFIX_SIZE + DATA_META_LEN)

\* the for-loops of process_ack_frame and handle_resume: write frames in
\* order while the credits cover the next one, stop at the first that does not
RECURSIVE WriteWhileCredits(_, _)
WriteWhileCredits(frames, credits) ==
    IF frames = <<>> \/ credits < Head(frames).len
    THEN 0
    ELSE 1 + WriteWhileCredits(Tail(frames), credits - Head(frames).len)

RECURSIVE SumLen(_)
SumLen(frames) ==
    IF frames = <<>> THEN 0 ELSE Head(frames).len + SumLen(Tail(frames))

\* Wal::range(peer, from_exclusive, None)
WalRange(from_exclusive) ==
    SelectSeq(wal_entries, LAMBDA e : e.msg_id > from_exclusive)

\* Wal::truncate_through(peer, up_to_inclusive)
WalTruncate(up_to_inclusive) ==
    SelectSeq(wal_entries, LAMBDA e : e.msg_id > up_to_inclusive)

\* Dedup::is_processed
IsProcessed(msg_id) ==
    msg_id <= dedup_cum \/ msg_id \in dedup_gaps

\* the while-loop of mark_processed: advance the watermark through the gaps
RECURSIVE AdvanceThroughGaps(_, _)
AdvanceThroughGaps(cum, gaps) ==
    IF (cum + 1) \in gaps THEN AdvanceThroughGaps(cum + 1, gaps \ {cum + 1}) ELSE cum

\* Dedup::mark_processed: the watermark after the call
MarkCum(msg_id) ==
    IF msg_id = dedup_cum + 1 THEN AdvanceThroughGaps(msg_id, dedup_gaps) ELSE dedup_cum

\* Dedup::mark_processed: the gap window after the call
MarkGaps(msg_id) ==
    IF msg_id <= dedup_cum THEN dedup_gaps
    ELSE IF msg_id = dedup_cum + 1
         THEN {g \in dedup_gaps : g > MarkCum(msg_id) /\ g <= MarkCum(msg_id) + DEDUP_WINDOW}
         ELSE IF msg_id <= dedup_cum + DEDUP_WINDOW THEN dedup_gaps \cup {msg_id}
              ELSE dedup_gaps

Idle == [pc |-> "idle", msg_id |-> 0, len |-> 0]

RelInit ==
    /\ next_msg_id = 1
    /\ cum_acked = 0
    /\ credits_bytes = 0
    /\ pending_frames = <<>>
    /\ wal_entries = <<>>
    /\ wal_last_appended = 0
    /\ wal_ack_state = 0
    /\ dedup_cum = 0
    /\ dedup_gaps = {}
    /\ recv_cum_processed = 0
    /\ credits_avail = RecvWindow
    /\ ack_pending = FALSE
    /\ connected = FALSE
    /\ socket = <<>>
    /\ rx_pos = 0
    /\ acks = <<>>
    /\ task = [t \in RecvTasks |-> Idle]
    /\ upward = [m \in MsgIds |-> 0]
    /\ resumes = 0
    /\ resume_snapshot = [r |-> 0, last |-> 0, acked |-> 0]

(* ------------------------------- mesh --------------------------------- *)
Nodes == 1..NumNodes
\* in the topology database of every node, with no session to any of them
FarNode == NumNodes + 1
\* absent from the topology database
UnknownNode == NumNodes + 2
Dsts == Nodes \cup {FarNode, UnknownNode}
MeshMsgIds == 1..MaxMsgs

Terminal(record) ==
    \/ record.status \in {"AckSuccess", "AckFailure", "Undeliverable"}
    \/ record.status = "Delivered" /\ ~record.require_ack

\* OutboundMessage / InboundMessage.  kind is "data" for an application message;
\* a delivery-status message carries the status in kind and original_msg_id in orig
DataMsg(src, dst, msg_id, require_ack) ==
    [src |-> src, dst |-> dst, msg_id |-> msg_id, require_ack |-> require_ack,
     kind |-> "data", orig |-> 0]

\* the function f without key k
Without(f, k) == [x \in DOMAIN f \ {k} |-> f[x]]

\* the function f with key k bound to v
With(f, k, v) == [x \in DOMAIN f \cup {k} |-> IF x = k THEN v ELSE f[x]]

\* MessageTracker::track_message.  status_message is kept as the kind of text
\* the caller passes
track_message(recs, msg_id, status, status_message, require_ack) ==
    With(recs, msg_id, [status |-> status, status_message |-> status_message,
                        require_ack |-> require_ack])

\* MessageTracker::update_status: no effect on an unknown msg_id
update_status(recs, msg_id, status, status_message) ==
    IF msg_id \in DOMAIN recs
    THEN [recs EXCEPT ![msg_id] = [@ EXCEPT !.status = status,
                                            !.status_message = status_message]]
    ELSE recs

\* MeshDataService::is_node_known
is_node_known_mutant(n, dst) == dst # 0

is_node_known(n, dst) == dst = n \/ dst \in Nodes \cup {FarNode}

TotalSent ==
    LET RECURSIVE Sum(_)
        Sum(S) == IF S = {} THEN 0
                  ELSE LET x == CHOOSE y \in S : TRUE
                       IN (msg_id_gen[x] - 1) + Sum(S \ {x})
    IN Sum(Nodes)

InFlight ==
    LET RECURSIVE Sum(_)
        Sum(S) == IF S = {} THEN 0
                  ELSE LET x == CHOOSE y \in S : TRUE
                       IN Len(outbound[x]) + Len(delivery[x])
                          + Len(link[x]) + Sum(S \ {x})
    IN Sum(Nodes)

MeshInit ==
    /\ msg_id_gen = [n \in Nodes |-> 1]
    /\ records = [n \in Nodes |-> <<>>]
    /\ pending_messages = [n \in Nodes |-> <<>>]
    /\ outbound = [n \in Nodes |-> <<>>]
    /\ link = [n \in Nodes |-> <<>>]
    /\ delivery = [n \in Nodes |-> <<>>]
    /\ subscribed = [n \in Nodes |-> FALSE]
    /\ received = [n \in Nodes |-> <<>>]
    /\ acked_messages = [n \in Nodes |-> <<>>]
    /\ waiter = [n \in Nodes |-> <<>>]

BNodes == 1..NumBNodes

BLinks == {l \in BNodes \X BNodes : l[1] # l[2]}

BcastInit ==
    /\ bsessions = [n \in BNodes |-> {}]
    /\ broadcast_cache = [n \in BNodes |-> {}]
    /\ boutbound = [n \in BNodes |-> <<>>]
    /\ message_tx = [l \in BLinks |-> <<>>]
    /\ bsocket = [l \in BLinks |-> <<>>]
    /\ bdelivery = [n \in BNodes |-> <<>>]
    /\ bforwarded = {}
    /\ bcalls = 0

TNodes == 1..NumTNodes

\* TopologyDatabase::new, RoutingTable::new
TopoInit ==
    /\ now = 0
    /\ nodes = <<>>
    /\ routes = <<>>
    /\ local_sequence = 1
    /\ table_routes = <<>>
    /\ topology_tx = <<>>
    /\ highest_accepted = <<>>
    /\ local_updates = 0

Sessions == 1..NumSessions

PeerIds == 1..NumPeerIds

\* no session task spawned, Lazy::new of the registry, SessionManager::new
SessInit ==
    /\ spc = [s \in Sessions |-> "idle"]
    /\ verify_node_id = [s \in Sessions |-> FALSE]
    /\ tls_node_id = [s \in Sessions |-> <<>>]
    /\ peer_node_id = [s \in Sessions |-> <<>>]
    /\ hellos = [s \in Sessions |-> <<>>]
    /\ registry = <<>>
    /\ manager_sessions = <<>>
    /\ event_rx = <<>>
    /\ connected_sent = [s \in Sessions |-> <<>>]
    /\ disconnected_sent = [s \in Sessions |-> <<>>]

FNodes == 1..NumFNodes

\* RoutingFailureTracker::new
FailInit ==
    /\ instant = 0
    /\ failures = <<>>
    /\ routed = 0
    /\ last_routed = <<>>
    /\ notifications = {}
    /\ interrupted = {}

StoreInit ==
    marked_ids = {}

\* MessageQueue::new
QueueInit ==
    /\ queue_now = 0
    /\ queued_msgs = <<>>
    /\ waiting_messages = [NodeOnline |-> <<>>, ClientSubscription |-> <<>>]
    /\ queue_status = <<>>
    /\ routable = FALSE
    /\ remote_subscribed = FALSE
    /\ reports = 0

\* MessageTracker::new
TrackInit ==
    /\ track_now = 0
    /\ tracked = <<>>
    /\ tracked_next = 1

\* RoutingTable::new
TableInit ==
    /\ rt_routes = <<>>
    /\ rt_epoch = 0
    /\ rt_old = <<>>
    /\ rt_new = <<>>
    /\ rt_todo = {}
    /\ rt_running = FALSE
    /\ rt_decision = <<>>
    /\ rt_decisions = 0

RaceInit ==
    /\ rq_pending = <<>>
    /\ rq_to_retry = {}
    /\ rq_held = <<>>
    /\ rq_fed = {}
    /\ rq_next = 1

EvInit ==
    /\ connected_neighbors = {}
    /\ ev_tasks = <<>>
    /\ ev_record = <<>>
    /\ ev_sequence = 1
    /\ ev_table = <<>>

SyncInit ==
    /\ sy_connected = {}
    /\ sy_tasks = <<>>
    /\ sy_nodes = <<>>
    /\ sy_sequence = 1
    /\ sy_event_rx = <<>>
    /\ sy_topology_rx = <<>>
    /\ sy_sessions = {}
    /\ sy_announced = {}
    /\ sy_peer_nodes = [p \in {2, 3} |-> <<>>]

ReadInit ==
    /\ rd_stream = <<>>
    /\ read_buffer = <<>>
    /\ rd_dispatched = <<>>
    /\ rd_sent = 0

PumpInit ==
    /\ surfaced = {}

Init == RelInit /\ MeshInit /\ BcastInit /\ TopoInit /\ SessInit /\ FailInit /\ StoreInit /\ QueueInit /\ TrackInit /\ TableInit /\ RaceInit /\ EvInit /\ SyncInit /\ ReadInit /\ PumpInit

\* ReliabilityManager::send_data
send_data_mutant(payload_len) ==
    /\ connected
    /\ next_msg_id' = next_msg_id + 1
    /\ wal_entries' = Append(wal_entries,
                             [msg_id |-> next_msg_id, len |-> FrameLen(payload_len)])
    /\ wal_last_appended' = next_msg_id
    /\ IF FrameLen(payload_len) > SEND_MAX_FRAME
       THEN UNCHANGED <<socket, credits_bytes, pending_frames>>
       ELSE IF credits_bytes >= FrameLen(payload_len)
            THEN /\ socket' = Append(socket, [msg_id |-> next_msg_id,
                                              len |-> FrameLen(payload_len)])
                 /\ credits_bytes' = credits_bytes - FrameLen(payload_len)
                 /\ UNCHANGED pending_frames
            ELSE /\ pending_frames' = Append(pending_frames,
                                             [msg_id |-> next_msg_id,
                                              len |-> FrameLen(payload_len)])
                 /\ UNCHANGED <<socket, credits_bytes>>
    /\ UNCHANGED <<cum_acked, wal_ack_state, dedup_cum, dedup_gaps, recv_cum_processed,
                   credits_avail, ack_pending, connected, rx_pos, acks, task, upward,
                   resumes, resume_snapshot>>
    /\ UNCHANGED notRelVars

send_data(payload_len) ==
    /\ connected
    /\ next_msg_id' = next_msg_id + 1
    /\ IF FrameLen(payload_len) > SEND_MAX_FRAME
       THEN UNCHANGED <<wal_entries, wal_last_appended, socket, credits_bytes, pending_frames>>
       ELSE /\ wal_entries' = Append(wal_entries,
                                     [msg_id |-> next_msg_id, len |-> FrameLen(payload_len)])
            /\ wal_last_appended' = next_msg_id
            /\ IF credits_bytes >= FrameLen(payload_len)
               THEN /\ socket' = Append(socket, [msg_id |-> next_msg_id,
                                                 len |-> FrameLen(payload_len)])
                    /\ credits_bytes' = credits_bytes - FrameLen(payload_len)
                    /\ UNCHANGED pending_frames
               ELSE /\ pending_frames' = Append(pending_frames,
                                                [msg_id |-> next_msg_id,
                                                 len |-> FrameLen(payload_len)])
                    /\ UNCHANGED <<socket, credits_bytes>>
    /\ UNCHANGED <<cum_acked, wal_ack_state, dedup_cum, dedup_gaps, recv_cum_processed,
                   credits_avail, ack_pending, connected, rx_pos, acks, task, upward,
                   resumes, resume_snapshot>>
    /\ UNCHANGED notRelVars

SendData == next_msg_id <= MaxSends /\ \E p \in PayloadLens : send_data(p)

\* ReliabilityManager::process_ack_frame, on the ACK frame at the head of acks
process_ack_frame ==
    /\ connected
    /\ acks # <<>>
    /\ LET ack_meta == Head(acks)
           n == WriteWhileCredits(pending_frames, ack_meta.credits)
           sent == SubSeq(pending_frames, 1, n)
       IN /\ IF ack_meta.cum_ack > cum_acked
             THEN /\ cum_acked' = ack_meta.cum_ack
                  /\ wal_ack_state' = ack_meta.cum_ack
                  /\ wal_entries' = WalTruncate(ack_meta.cum_ack)
             ELSE UNCHANGED <<cum_acked, wal_ack_state, wal_entries>>
          /\ credits_bytes' = ack_meta.credits - SumLen(sent)
          /\ socket' = socket \o sent
          /\ pending_frames' = SubSeq(pending_frames, n + 1, Len(pending_frames))
    /\ acks' = Tail(acks)
    /\ UNCHANGED <<next_msg_id, wal_last_appended, dedup_cum, dedup_gaps,
                   recv_cum_processed, credits_avail, ack_pending, connected, rx_pos,
                   task, upward, resumes, resume_snapshot>>
    /\ UNCHANGED notRelVars

\* A new connection: the receiver's build_resume followed by the sender's
\* ReliabilityManager::handle_resume
handle_resume ==
    /\ ~connected
    /\ resumes < MaxResumes
    /\ LET receiver_cum_proc == recv_cum_processed
           starting_credits == RecvWindow
           entries == WalRange(receiver_cum_proc)
           n == WriteWhileCredits(entries, starting_credits)
           sent == SubSeq(entries, 1, n)
       IN /\ credits_bytes' = starting_credits - SumLen(sent)
          /\ socket' = sent
          /\ resume_snapshot' = [r |-> receiver_cum_proc, last |-> wal_last_appended,
                                 acked |-> cum_acked]
    /\ connected' = TRUE
    /\ rx_pos' = 0
    /\ resumes' = resumes + 1
    /\ UNCHANGED <<next_msg_id, cum_acked, pending_frames, wal_entries, wal_last_appended,
                   wal_ack_state, dedup_cum, dedup_gaps, recv_cum_processed,
                   credits_avail, ack_pending, acks, task, upward>>
    /\ UNCHANGED notRelVars

\* The transport connection is lost: frames and ACKs in flight are gone, both
\* managers keep their state
Disconnect ==
    /\ connected
    /\ connected' = FALSE
    /\ acks' = <<>>
    /\ rx_pos' = Len(socket)
    /\ UNCHANGED <<next_msg_id, cum_acked, credits_bytes, pending_frames, wal_entries,
                   wal_last_appended, wal_ack_state, dedup_cum, dedup_gaps,
                   recv_cum_processed, credits_avail, ack_pending, socket, task, upward,
                   resumes, resume_snapshot>>
    /\ UNCHANGED notRelVars

\* ReliabilityManager::process_data_frame up to and including the is_processed
\* check, for the next frame read from the connection
process_data_frame_check(t) ==
    /\ connected
    /\ task[t].pc = "idle"
    /\ rx_pos < Len(socket)
    /\ rx_pos' = rx_pos + 1
    /\ LET f == socket[rx_pos + 1]
       IN IF IsProcessed(f.msg_id)
          THEN /\ ack_pending' = TRUE
               /\ UNCHANGED task
          ELSE /\ task' = [task EXCEPT ![t] = [pc |-> "mark", msg_id |-> f.msg_id,
                                               len |-> f.len]]
               /\ UNCHANGED ack_pending
    /\ UNCHANGED <<next_msg_id, cum_acked, credits_bytes, pending_frames, wal_entries,
                   wal_last_appended, wal_ack_state, dedup_cum, dedup_gaps,
                   recv_cum_processed, credits_avail, connected, socket, acks, upward,
                   resumes, resume_snapshot>>
    /\ UNCHANGED notRelVars

\* ReliabilityManager::process_data_frame from mark_processed to Ok(true)
process_data_frame_mark(t) ==
    /\ task[t].pc = "mark"
    /\ dedup_cum' = MarkCum(task[t].msg_id)
    /\ dedup_gaps' = MarkGaps(task[t].msg_id)
    /\ recv_cum_processed' = dedup_cum'
    /\ credits_avail' = credits_avail - PayloadOf(task[t].len)
    /\ ack_pending' = TRUE
    /\ upward' = [upward EXCEPT ![task[t].msg_id] = @ + 1]
    /\ task' = [task EXCEPT ![t] = Idle]
    /\ UNCHANGED <<next_msg_id, cum_acked, credits_bytes, pending_frames, wal_entries,
                   wal_last_appended, wal_ack_state, connected, socket, rx_pos, acks,
                   resumes, resume_snapshot>>
    /\ UNCHANGED notRelVars

\* ReliabilityManager::maybe_build_ack when should_ack holds (the ack_interval
\* timer can have expired whenever an ACK is pending).  credits_avail stays
\* within 0..RecvWindow here, where the cast to u32 changes nothing.
maybe_build_ack ==
    /\ connected
    /\ ack_pending
    /\ Len(acks) < MaxAcksInFlight
    /\ LET refreshed == IF credits_avail <= RecvWindow \div 2 THEN RecvWindow
                        ELSE credits_avail
       IN /\ credits_avail' = refreshed
          /\ acks' = Append(acks, [cum_ack |-> recv_cum_processed,
                                   credits |-> refreshed])
    /\ ack_pending' = FALSE
    /\ UNCHANGED <<next_msg_id, cum_acked, credits_bytes, pending_frames, wal_entries,
                   wal_last_appended, wal_ack_state, dedup_cum, dedup_gaps,
                   recv_cum_processed, connected, socket, rx_pos, task, upward, resumes,
                   resume_snapshot>>
    /\ UNCHANGED notRelVars

ProcessDataFrameCheck == \E t \in RecvTasks : process_data_frame_check(t)

ProcessDataFrameMark == \E t \in RecvTasks : process_data_frame_mark(t)

RelNext ==
    \/ SendData
    \/ process_ack_frame
    \/ handle_resume
    \/ Disconnect
    \/ ProcessDataFrameCheck
    \/ ProcessDataFrameMark
    \/ maybe_build_ack

SpecRel == Init /\ [][RelNext]_vars

\* The reconnect scenario of the reliability layer: small payloads only, one
\* caller of process_data_frame
SendSmall == next_msg_id <= ScenarioSends /\ send_data(SmallPayload)

ReceiveCheck == process_data_frame_check(1)

ReceiveMark == process_data_frame_mark(1)

ReconnectNext ==
    \/ SendSmall
    \/ process_ack_frame
    \/ handle_resume
    \/ Disconnect
    \/ ReceiveCheck
    \/ ReceiveMark
    \/ maybe_build_ack

SpecReconnect == Init /\ [][ReconnectNext]_vars

\* A payload whose frame is larger than the 16 MB that send_data allows
OversizePayload == SEND_MAX_FRAME + 1

SendSized ==
    next_msg_id <= MaxSends /\ \E p \in {SmallPayload, OversizePayload} : send_data(p)

\* The reconnect scenario with payloads of both kinds
SizedNext ==
    \/ SendSized
    \/ process_ack_frame
    \/ handle_resume
    \/ Disconnect
    \/ ReceiveCheck
    \/ ReceiveMark
    \/ maybe_build_ack

SpecSized == Init /\ [][SizedNext]_vars

\* The receiving task, the ACK timer and the task reading ACK frames are tokio
\* tasks that run whenever they have work
FairReconnect ==
    /\ Init
    /\ [][ReconnectNext]_vars
    /\ WF_vars(ReceiveCheck)
    /\ WF_vars(ReceiveMark)
    /\ WF_vars(maybe_build_ack)
    /\ WF_vars(process_ack_frame)

SocketIds == [i \in 1..Len(socket) |-> socket[i].msg_id]

IsPrefix(s, t) == Len(s) <= Len(t) /\ \A i \in 1..Len(s) : s[i] = t[i]

(* --------------------------- mesh operations --------------------------- *)
Min(a, b) == IF a < b THEN a ELSE b

RECURSIVE Pow2(_)
Pow2(k) == IF k <= 0 THEN 1 ELSE 2 * Pow2(k - 1)

retry_exhausted_mutant(retry_count) == retry_count > max_retry_attempts + 1

\* start_retry_processor: the test that ends a message's retries
retry_exhausted(retry_count) == retry_count > max_retry_attempts

\* start_retry_processor: base_retry_interval * 2^(retry_count - 1), capped
retry_delay(retry_count) ==
    Min(base_retry_interval * Pow2(retry_count - 1), max_retry_interval)

\* the sequences that list every element of S once
Orders(S) ==
    {o \in [1..Cardinality(S) -> S] : \A i, j \in 1..Cardinality(S) : i # j => o[i] # o[j]}

\* The body of the retry loop for the due messages, taken in the order the
\* map iteration produced them
RECURSIVE retry_loop(_, _)
retry_loop(order, st) ==
    IF order = <<>> THEN st
    ELSE LET m == Head(order)
             q == st.pend[m]
             count == q.retry_count + 1
         IN IF retry_exhausted(count)
            THEN retry_loop(Tail(order),
                            [st EXCEPT !.pend = Without(@, m),
                                       !.recs = update_status(@, m, "Undeliverable",
                                                              "max retry attempts exceeded")])
            ELSE retry_loop(Tail(order),
                            [pend |-> [st.pend EXCEPT ![m] =
                                          [q EXCEPT !.retry_count = count,
                                                    !.delay = retry_delay(count)]],
                             recs |-> update_status(st.recs, m, "Queued", "retry attempt"),
                             outb |-> Append(st.outb, q.message)])

\* The messages a tick can find with now >= next_retry_at.  next_retry_at is
\* the instant of the insert for a message not retried yet, so the first tick
\* after it finds that message due; a retried message is due once its delay
\* has passed, which the model leaves open.
DueSets(n) ==
    {due \in SUBSET DOMAIN pending_messages[n] :
        \A m \in DOMAIN pending_messages[n] : pending_messages[n][m].delay = 0 => m \in due}

\* One tick of the task spawned by MessageQueue::start_retry_processor
RetryTick(n) ==
    /\ \E due \in DueSets(n) : \E order \in Orders(due) :
          LET st == retry_loop(order, [pend |-> pending_messages[n], recs |-> records[n],
                                       outb |-> outbound[n]])
          IN /\ due # {}
             /\ InFlight + Cardinality(due) <= MaxInFlight /\ pending_messages' = [pending_messages EXCEPT ![n] = st.pend]
             /\ records' = [records EXCEPT ![n] = st.recs]
             /\ outbound' = [outbound EXCEPT ![n] = st.outb]
    /\ UNCHANGED <<msg_id_gen, link, delivery, subscribed, received, acked_messages,
                   waiter>>
    /\ UNCHANGED notMeshVars

\* MessageQueue::queue_message: the initial send, then the insert into pending
queue_message(n, message) ==
    /\ outbound' = [outbound EXCEPT ![n] = Append(@, message)]
    /\ pending_messages' = [pending_messages EXCEPT ![n] =
           With(@, message.msg_id, [retry_count |-> 0, delay |-> 0, message |-> message])]

SendModes == {"FireAndForget", "WaitForDelivery", "WaitForAck"}

\* MeshDataService::send up to the point where it returns or starts waiting
send(n, dst, require_ack, mode) ==
    /\ msg_id_gen' = [msg_id_gen EXCEPT ![n] = @ + 1]
    /\ LET msg_id == msg_id_gen[n]
       IN IF ~is_node_known(n, dst)
          THEN /\ records' = [records EXCEPT ![n] =
                                 track_message(@, msg_id, "Undeliverable",
                                               "destination not known", require_ack)]
               /\ UNCHANGED <<outbound, pending_messages, waiter>>
          ELSE /\ records' = [records EXCEPT ![n] =
                                 track_message(@, msg_id, "Queued", "queued for delivery",
                                               require_ack)]
               /\ IF mode = "WaitForAck" /\ ~require_ack
                  THEN UNCHANGED <<outbound, pending_messages, waiter>>
                  ELSE /\ queue_message(n, DataMsg(n, dst, msg_id, require_ack))
                       /\ IF mode = "FireAndForget"
                          THEN UNCHANGED waiter
                          ELSE waiter' = [waiter EXCEPT ![n] =
                                   With(@, msg_id, [mode |-> mode, result |-> "waiting"])]
    /\ UNCHANGED <<link, delivery, subscribed, received, acked_messages>>
    /\ UNCHANGED notMeshVars

Send == \E n \in Nodes : \E dst \in Dsts : \E require_ack \in BOOLEAN :
            \E mode \in SendModes :
                /\ TotalSent < MaxMsgs
                /\ InFlight < MaxInFlight
                /\ send(n, dst, require_ack, mode)

\* every node sends at most MaxMsgs messages, without waiting for the outcome
CrossSend == \E n \in Nodes : \E dst \in Nodes \cup {FarNode} : \E require_ack \in BOOLEAN :
                /\ msg_id_gen[n] <= MaxMsgs
                /\ InFlight < MaxInFlight
                /\ send(n, dst, require_ack, "FireAndForget")

Tick == \E n \in Nodes : RetryTick(n)

\* What RoutingTable::get_route can answer at node n for dst, 0 standing for no
\* route: a neighbour is reached directly, the far node through any
\* neighbour or not at all, depending on the topology updates processed so far
RouteChoices(n, dst) ==
    IF dst \in Nodes \ {n} THEN {dst}
    ELSE IF dst = FarNode THEN (Nodes \ {n}) \cup {0}
    ELSE {0}

\* RoutingTable::decide, next_hop being the table's answer for dst
decide(n, dst, ttl, next_hop) ==
    IF dst = n THEN "Local"
    ELSE IF ttl = 0 THEN "TtlExpired"
    ELSE IF next_hop # 0 THEN "Forward"
    ELSE "NoRoute"

\* MeshDataService::handle_routing_feedback (the static one, fed by
\* SessionManager::send_routing_feedback): the status a decision maps to
feedback_status(decision) ==
    CASE decision \in {"Forward", "Local"} -> "NoChange"
      [] decision = "NoRoute" -> "PendingNode"
      [] OTHER -> "Undeliverable"

\* build_data_frame: the header comes from FastHeader::new.  arrived_ttl is the
\* TTL of the frame this one forwards, 0 for a message that starts here
build_data_frame(message, arrived_ttl) ==
    [message |-> message, ttl |-> DEFAULT_TTL, arrived_ttl |-> arrived_ttl]

\* SessionManager::handle_outbound_message followed by the session's outbound
\* arm, which builds the frame and writes it to the socket.  lk and dl are the
\* sockets and delivery channels the call starts from.
handle_outbound_message(n, message, arrived_ttl, lk, dl, next_hop) ==
    IF message.dst = n
    THEN [link |-> lk, delivery |-> [dl EXCEPT ![n] = Append(@, message)],
          records |-> records]
    ELSE LET decision == decide(n, message.dst, ROUTING_CONTEXT_TTL, next_hop)
             fed == IF message.msg_id # 0 /\ feedback_status(decision) # "NoChange"
                    THEN [records EXCEPT ![n] =
                             update_status(@, message.msg_id, feedback_status(decision),
                                           "routing feedback")]
                    ELSE records
         IN IF decision = "Forward"
            THEN [link |-> [lk EXCEPT ![next_hop] =
                               Append(@, build_data_frame(message, arrived_ttl))],
                  delivery |-> dl, records |-> fed]
            ELSE [link |-> lk, delivery |-> dl, records |-> fed]

\* SessionManager::run taking the next message from the outbound channel
ManagerOutbound(n) ==
    /\ outbound[n] # <<>>
    /\ \E next_hop \in RouteChoices(n, Head(outbound[n]).dst) :
          LET r == handle_outbound_message(n, Head(outbound[n]), 0, link, delivery, next_hop)
          IN /\ link' = r.link
             /\ delivery' = r.delivery
             /\ records' = r.records
    /\ outbound' = [outbound EXCEPT ![n] = Tail(@)]
    /\ UNCHANGED <<msg_id_gen, pending_messages, subscribed, received, acked_messages,
                   waiter>>
    /\ UNCHANGED notMeshVars

\* The session's Data arm reading the next frame from the socket, and
\* SessionManager::handle_session_event for the MessageReceived it emits
SessionReceive(n) ==
    /\ link[n] # <<>>
    /\ LET frame == Head(link[n])
           rest == [link EXCEPT ![n] = Tail(@)]
       IN IF frame.ttl = 0
          THEN /\ link' = rest
               /\ UNCHANGED <<delivery, records>>
          ELSE \E next_hop \in RouteChoices(n, frame.message.dst) :
                  LET r == handle_outbound_message(n, frame.message, frame.ttl, rest,
                                                   delivery, next_hop)
                  IN /\ link' = r.link
                     /\ delivery' = r.delivery
                     /\ records' = r.records
    /\ UNCHANGED <<msg_id_gen, pending_messages, outbound, subscribed, received,
                   acked_messages, waiter>>
    /\ UNCHANGED notMeshVars

\* MeshDataService::send_delivery_status_to_source: the outbound channel afterwards
send_delivery_status_to_source(n, outb, src_node, msg_id, status) ==
    IF src_node = n THEN outb
    ELSE Append(outb, [src |-> n, dst |-> src_node, msg_id |-> 0, require_ack |-> FALSE,
                       kind |-> status, orig |-> msg_id])

\* the status codes handle_delivery_status_message converts back to a status
AcceptedStatusCodes == {"Delivered", "PendingClient", "WaitingForClientAck", "Undeliverable"}

\* MessageQueue::handle_routing_feedback: pending_messages afterwards
queue_feedback(pend, msg_id, status) ==
    IF status \in {"Delivered", "WaitingForClientAck", "AckSuccess", "AckFailure"}
       /\ msg_id \in DOMAIN pend
    THEN Without(pend, msg_id)
    ELSE pend

\* MeshDataService::handle_delivery_status_message
handle_delivery_status_message(n, message) ==
    /\ IF message.kind \in AcceptedStatusCodes
       THEN /\ records' = [records EXCEPT ![n] =
                           update_status(@, message.orig, message.kind, "delivery status")]
            /\ pending_messages' = [pending_messages EXCEPT ![n] =
                                       queue_feedback(@, message.orig, message.kind)]
       ELSE UNCHANGED <<records, pending_messages>>
    /\ UNCHANGED <<outbound, received>>

Bump(f, k) == IF k \in DOMAIN f THEN [f EXCEPT ![k] = Min(@ + 1, DeliveryCountCap)]
              ELSE With(f, k, 1)

\* MeshDataService::handle_incoming_message for an application message
deliver_to_subscribers(n, message) ==
    /\ IF ~subscribed[n]
       THEN /\ outbound' = [outbound EXCEPT ![n] =
                   IF message.msg_id # 0
                   THEN send_delivery_status_to_source(n, @, message.src, message.msg_id,
                                                       "PendingClient")
                   ELSE @]
            /\ UNCHANGED received
       ELSE /\ received' = [received EXCEPT ![n] = Bump(@, <<message.src, message.msg_id>>)]
            /\ outbound' = [outbound EXCEPT ![n] =
                   IF message.msg_id # 0
                   THEN send_delivery_status_to_source(n, @, message.src, message.msg_id,
                            IF message.require_ack THEN "WaitingForClientAck"
                            ELSE "Delivered")
                   ELSE @]
    /\ UNCHANGED <<records, pending_messages>>

\* The task that feeds the delivery channel to MeshDataService::handle_incoming_message
HandleIncoming(n) ==
    /\ delivery[n] # <<>>
    /\ LET message == Head(delivery[n])
       IN IF message.dst # n
          THEN UNCHANGED <<records, pending_messages, outbound, received>>
          ELSE IF message.kind # "data"
               THEN handle_delivery_status_message(n, message)
               ELSE deliver_to_subscribers(n, message)
    /\ delivery' = [delivery EXCEPT ![n] = Tail(@)]
    /\ UNCHANGED <<msg_id_gen, link, subscribed, acked_messages, waiter>>
    /\ UNCHANGED notMeshVars

\* MeshDataService::subscribe: the node's first subscriber
Subscribe(n) ==
    /\ ~subscribed[n]
    /\ subscribed' = [subscribed EXCEPT ![n] = TRUE]
    /\ UNCHANGED <<msg_id_gen, records, pending_messages, outbound, link, delivery,
                   received, acked_messages, waiter>>
    /\ UNCHANGED notMeshVars

\* MeshDataService::ack_message, called by the subscriber for a message that
\* asked for an acknowledgement
ack_message(n, src_node, msg_id, success) ==
    /\ InFlight < MaxInFlight
    /\ acked_messages' = [acked_messages EXCEPT ![n] = With(@, <<src_node, msg_id>>, success)]
    /\ LET status == IF success THEN "AckSuccess" ELSE "AckFailure"
       IN /\ records' = [records EXCEPT ![n] =
                             update_status(@, msg_id, status, "client acknowledgement")]
          /\ outbound' = [outbound EXCEPT ![n] =
                             send_delivery_status_to_source(n, @, src_node, msg_id, status)]
    /\ UNCHANGED <<msg_id_gen, pending_messages, link, delivery, subscribed, received,
                   waiter>>
    /\ UNCHANGED notMeshVars

\* the statuses a blocked send call waits for
target_statuses(mode) ==
    IF mode = "WaitForDelivery" THEN {"Delivered", "PendingClient", "Undeliverable"}
    ELSE {"AckSuccess", "AckFailure", "Undeliverable"}

\* MeshDataService::wait_for_status finding a target status
WaitReturn(n, msg_id) ==
    /\ msg_id \in DOMAIN waiter[n]
    /\ waiter[n][msg_id].result = "waiting"
    /\ msg_id \in DOMAIN records[n]
    /\ records[n][msg_id].status \in target_statuses(waiter[n][msg_id].mode)
    /\ waiter' = [waiter EXCEPT ![n][msg_id].result = records[n][msg_id].status]
    /\ UNCHANGED <<msg_id_gen, records, pending_messages, outbound, link, delivery,
                   subscribed, received, acked_messages>>
    /\ UNCHANGED notMeshVars

\* MeshDataService::wait_for_status running into its timeout: send answers
\* with the status the record has at that moment
WaitTimeout(n, msg_id) ==
    /\ msg_id \in DOMAIN waiter[n]
    /\ waiter[n][msg_id].result = "waiting"
    /\ msg_id \in DOMAIN records[n]
    /\ records[n][msg_id].status \notin target_statuses(waiter[n][msg_id].mode)
    /\ waiter' = [waiter EXCEPT ![n][msg_id].result = "Timeout"]
    /\ UNCHANGED <<msg_id_gen, records, pending_messages, outbound, link, delivery,
                   subscribed, received, acked_messages>>
    /\ UNCHANGED notMeshVars

Outbound == \E n \in Nodes : ManagerOutbound(n)

Receive == \E n \in Nodes : SessionReceive(n)

Incoming == \E n \in Nodes : HandleIncoming(n)

Subscription == \E n \in Nodes : Subscribe(n)

\* a client acknowledging, once, a message its subscription was handed
ClientAck == \E n \in Nodes : \E src \in Nodes : \E m \in MeshMsgIds :
                \E success \in BOOLEAN :
                    /\ <<src, m>> \in DOMAIN received[n]
                    /\ <<src, m>> \notin DOMAIN acked_messages[n]
                    /\ ack_message(n, src, m, success)

\* a client acknowledging, once, a message its node never handed to it
StrayAck == \E n \in Nodes : \E src \in Nodes : \E m \in MeshMsgIds :
                \E success \in BOOLEAN :
                    /\ \A k \in Nodes :
                           Cardinality(DOMAIN acked_messages[k] \ DOMAIN received[k])
                               < MaxStrayAcks
                    /\ <<src, m>> \notin DOMAIN received[n]
                    /\ <<src, m>> \notin DOMAIN acked_messages[n]
                    /\ ack_message(n, src, m, success)

Returned == \E n \in Nodes : \E m \in MeshMsgIds : WaitReturn(n, m)

TimedOut == \E n \in Nodes : \E m \in MeshMsgIds : WaitTimeout(n, m)

MeshNext ==
    \/ Send
    \/ Tick
    \/ Outbound
    \/ Receive
    \/ Incoming
    \/ Subscription
    \/ ClientAck
    \/ Returned
    \/ TimedOut

SpecMesh == Init /\ [][MeshNext]_vars

\* The mesh with messages of several nodes under way at the same time
CrossNext ==
    \/ CrossSend
    \/ Outbound
    \/ Receive
    \/ Incoming
    \/ Subscription
    \/ ClientAck

SpecCross == Init /\ [][CrossNext]_vars

\* The mesh with clients that also acknowledge messages they were never handed
AckNext ==
    \/ Send
    \/ Outbound
    \/ Receive
    \/ Incoming
    \/ Subscription
    \/ ClientAck
    \/ StrayAck

SpecAck == Init /\ [][AckNext]_vars

\* The manager loop, the session tasks, the incoming-message task and a send
\* call polling in wait_for_status are tokio tasks that run whenever they have work
FairMesh ==
    /\ Init
    /\ [][MeshNext]_vars
    /\ WF_vars(Outbound)
    /\ WF_vars(Receive)
    /\ WF_vars(Incoming)
    /\ WF_vars(Returned)

(* ------------------------------ broadcast ------------------------------ *)
\* Option<T>: None is the empty sequence, Some(v) the sequence of v alone
None == <<>>

Some(v) == <<v>>

BroadcastIdOptions == {None} \cup {Some(v) : v \in 0..MaxBroadcastId}

BroadcastTtlOptions == {None} \cup {Some(v) : v \in 0..MaxBroadcastTtl}

\* The payload of a broadcast names the broadcast it is a copy of.  A broadcast
\* without a usable broadcast_id has payload 0.
BroadcastPayload(broadcast_id) ==
    IF broadcast_id = None THEN 0 ELSE broadcast_id[1]

\* OutboundMessage of a broadcast as the gRPC service hands it to the manager
BroadcastMsg(src, broadcast_id, broadcast_ttl) ==
    [src |-> src, dst |-> 0, payload |-> BroadcastPayload(broadcast_id),
     broadcast_id |-> broadcast_id, broadcast_ttl |-> broadcast_ttl]

\* BroadcastCache::contains behind the guards of handle_broadcast_message
is_cached_duplicate(n, message) ==
    /\ message.broadcast_id # None
    /\ message.broadcast_id[1] # 0
    /\ <<message.src, message.broadcast_id[1]>> \in broadcast_cache[n]

\* BroadcastCache::insert behind the guards of handle_broadcast_message
cache_after(n, message) ==
    IF message.broadcast_id # None /\ message.broadcast_id[1] # 0
    THEN broadcast_cache[n] \cup {<<message.src, message.broadcast_id[1]>>}
    ELSE broadcast_cache[n]

\* ttl.saturating_sub(1) on an Option<u8>
decremented(broadcast_ttl) ==
    IF broadcast_ttl = None THEN None
    ELSE IF broadcast_ttl[1] = 0 THEN Some(0) ELSE Some(broadcast_ttl[1] - 1)

\* the copy handle_broadcast_message sends to the session of node_id
forwarded_message(message, node_id) ==
    [message EXCEPT !.dst = node_id, !.broadcast_ttl = decremented(message.broadcast_ttl)]

\* SessionManager::deliver_locally on the node's delivery channel
deliver_locally(dlv, src, payload) ==
    IF <<src, payload>> \in DOMAIN dlv
    THEN [dlv EXCEPT ![<<src, payload>>] = @ + 1]
    ELSE With(dlv, <<src, payload>>, 1)

\* SessionManager::handle_broadcast_message
handle_broadcast_message(n, message) ==
    IF is_cached_duplicate(n, message)
    THEN UNCHANGED <<broadcast_cache, bdelivery, message_tx, bforwarded>>
    ELSE /\ broadcast_cache' = [broadcast_cache EXCEPT ![n] = cache_after(n, message)]
         /\ IF message.broadcast_ttl = Some(0)
            THEN UNCHANGED <<bdelivery, message_tx, bforwarded>>
            ELSE LET targets == bsessions[n] \ {message.src}
                 IN /\ bdelivery' = [bdelivery EXCEPT ![n] =
                                        deliver_locally(@, message.src, message.payload)]
                    /\ message_tx' =
                          [l \in BLinks |->
                              IF l[1] = n /\ l[2] \in targets
                              THEN Append(message_tx[l], forwarded_message(message, l[2]))
                              ELSE message_tx[l]]
                    /\ bforwarded' = bforwarded \cup
                          {[from |-> n, to |-> p, src |-> message.src,
                            payload |-> message.payload,
                            broadcast_ttl |-> decremented(message.broadcast_ttl)] :
                                p \in targets}

\* MeshDataService::broadcast_state_event putting a broadcast on outbound_tx
BroadcastCall(n, broadcast_id, broadcast_ttl) ==
    /\ bcalls < MaxBroadcasts
    /\ bcalls' = bcalls + 1
    /\ boutbound' = [boutbound EXCEPT ![n] =
                        Append(@, BroadcastMsg(n, broadcast_id, broadcast_ttl))]
    /\ UNCHANGED <<bsessions, broadcast_cache, message_tx, bsocket, bdelivery, bforwarded>>
    /\ UNCHANGED notBcastVars

\* SessionManager::run taking a broadcast from the outbound channel
BManagerOutbound(n) ==
    /\ boutbound[n] # <<>>
    /\ handle_broadcast_message(n, Head(boutbound[n]))
    /\ boutbound' = [boutbound EXCEPT ![n] = Tail(@)]
    /\ UNCHANGED <<bsessions, bsocket, bcalls>>
    /\ UNCHANGED notBcastVars

\* The session's outbound arm: build_data_frame keeps src, dst and payload;
\* broadcast_id, broadcast_ttl and is_broadcast have no place in the frame
BSessionWrite(l) ==
    /\ message_tx[l] # <<>>
    /\ message_tx' = [message_tx EXCEPT ![l] = Tail(@)]
    /\ bsocket' = [bsocket EXCEPT ![l] =
                      Append(@, [src |-> Head(message_tx[l]).src,
                                 dst |-> Head(message_tx[l]).dst,
                                 payload |-> Head(message_tx[l]).payload])]
    /\ UNCHANGED <<bsessions, broadcast_cache, boutbound, bdelivery, bforwarded, bcalls>>
    /\ UNCHANGED notBcastVars

\* The session's Data arm at the reading end of l, and handle_session_event
\* for the MessageReceived it emits
BSessionReceive(l) ==
    /\ bsocket[l] # <<>>
    /\ bsocket' = [bsocket EXCEPT ![l] = Tail(@)]
    /\ LET frame == Head(bsocket[l])
       IN IF frame.dst = l[2]
          THEN /\ bdelivery' = [bdelivery EXCEPT ![l[2]] =
                                   deliver_locally(@, frame.src, frame.payload)]
               /\ UNCHANGED <<broadcast_cache, message_tx, bforwarded>>
          ELSE IF frame.dst = 0
          THEN handle_broadcast_message(l[2], [src |-> frame.src, dst |-> 0,
                                               payload |-> frame.payload,
                                               broadcast_id |-> None,
                                               broadcast_ttl |-> None])
          ELSE UNCHANGED <<broadcast_cache, bdelivery, message_tx, bforwarded>>
    /\ UNCHANGED <<bsessions, boutbound, bcalls>>
    /\ UNCHANGED notBcastVars

\* SessionManager::handle_session_event for Connected, at both ends of a new
\* session: the manager of n registers remote_node_id and the manager of
\* remote_node_id registers n.  The sessions of the mesh are set up before the
\* first broadcast is sent.
BConnected(n, remote_node_id) ==
    /\ bcalls = 0
    /\ remote_node_id \notin bsessions[n]
    /\ bsessions' = [bsessions EXCEPT ![n] = @ \cup {remote_node_id},
                                      ![remote_node_id] = @ \cup {n}]
    /\ UNCHANGED <<broadcast_cache, boutbound, message_tx, bsocket, bdelivery, bforwarded,
                   bcalls>>
    /\ UNCHANGED notBcastVars

BConnect == \E l \in BLinks : l[1] < l[2] /\ BConnected(l[1], l[2])

BCall == \E n \in BNodes : \E broadcast_id \in BroadcastIdOptions :
            \E broadcast_ttl \in BroadcastTtlOptions :
                BroadcastCall(n, broadcast_id, broadcast_ttl)

BOutbound == \E n \in BNodes : BManagerOutbound(n)

BWrite == \E l \in BLinks : BSessionWrite(l)

BReceive == \E l \in BLinks : BSessionReceive(l)

BcastNext ==
    \/ BConnect
    \/ BCall
    \/ BOutbound
    \/ BWrite
    \/ BReceive

SpecBcast == Init /\ [][BcastNext]_vars

\* The manager loop and the session tasks run whenever they have work
FairBcast ==
    /\ Init
    /\ [][BcastNext]_vars
    /\ WF_vars(BOutbound)
    /\ WF_vars(BWrite)
    /\ WF_vars(BReceive)

(* ------------------------------ topology ------------------------------- *)
\* TopologyDatabase.local_node_id
local_node_id == 1

\* SessionManager.sessions of the local node: it is connected to nodes 2 and 3
TSessions == {2, 3}

\* The links of the mesh: 1 - 2 - 4 and 1 - 3 - 4.  Every node's updates carry
\* its own links, each at the default cost
Adjacent(n) ==
    IF n = 1 THEN TSessions
    ELSE IF n = NumTNodes THEN TSessions
    ELSE {1, NumTNodes}

neighbor_map(neighbors) == [v \in neighbors |-> DEFAULT_LINK_COST]

SeqModulus == Pow2(SeqBits)

\* u64::wrapping_add
wrapping_add(a, b) == (a + b) % SeqModulus

\* u64::wrapping_sub
wrapping_sub(a, b) == (a - b + SeqModulus) % SeqModulus

\* the cast `as i64` of an unsigned value of the same width
as_signed(x) == IF x >= SeqModulus \div 2 THEN x - SeqModulus ELSE x

is_newer_than_mutant(sequence_number, other_seq) ==
    sequence_number > other_seq

\* TopologyUpdate::is_newer_than
is_newer_than(sequence_number, other_seq) ==
    as_signed(wrapping_sub(sequence_number, other_seq)) > 0

\* u64::saturating_sub
saturating_sub(a, b) == IF a > b THEN a - b ELSE 0

SetMin(S) == CHOOSE x \in S : \A y \in S : x <= y

\* The distances map when Dijkstra's loop of compute_routes ends: the least
\* total cost from src to every node the records lead to.  A node is expanded
\* only if it has a record; a node without one can still be a destination.
\* (With at most NumTNodes nodes at the default cost no sum saturates.)
RECURSIVE Relax(_, _, _)
Relax(ns, d, k) ==
    IF k = 0 THEN d
    ELSE LET expanded == DOMAIN d \cap DOMAIN ns
             reach == DOMAIN d \cup UNION {DOMAIN ns[u].neighbors : u \in expanded}
             cand(v) == (IF v \in DOMAIN d THEN {d[v]} ELSE {})
                        \cup {d[u] + ns[u].neighbors[v] :
                                u \in {x \in expanded : v \in DOMAIN ns[x].neighbors}}
         IN Relax(ns, [v \in reach |-> SetMin(cand(v))], k - 1)

distances(ns, src) == Relax(ns, [v \in {src} |-> 0], NumTNodes)

\* The previous map of compute_routes: an entry is written only when new_dist is
\* strictly below the distance known so far, and the heap pops (distance, node)
\* pairs in ascending order, so the entry that stays is the first node popped
\* among those that give the least distance
previous(ns, d, v) ==
    LET preds == {u \in DOMAIN d \cap DOMAIN ns :
                    /\ v \in DOMAIN ns[u].neighbors
                    /\ d[u] + ns[u].neighbors[v] = d[v]}
    IN CHOOSE u \in preds : \A w \in preds : d[u] < d[w] \/ (d[u] = d[w] /\ u <= w)

\* the walk back from the destination along previous
RECURSIVE walk_next_hop(_, _, _)
walk_next_hop(ns, d, v) ==
    IF previous(ns, d, v) = local_node_id THEN v
    ELSE walk_next_hop(ns, d, previous(ns, d, v))

RECURSIVE walk_hop_count(_, _, _)
walk_hop_count(ns, d, v) ==
    IF previous(ns, d, v) = local_node_id THEN 1
    ELSE 1 + walk_hop_count(ns, d, previous(ns, d, v))

\* TopologyDatabase::compute_routes
compute_routes(ns) ==
    LET d == distances(ns, local_node_id)
    IN [dst_node \in DOMAIN d \ {local_node_id} |->
            [next_hop |-> walk_next_hop(ns, d, dst_node),
             total_cost |-> d[dst_node],
             hop_count |-> walk_hop_count(ns, d, dst_node)]]

\* RoutingTable::update_routes_from_topology: one HopSet::single per computed route
update_routes_from_topology(computed_routes) ==
    [dst_node \in DOMAIN computed_routes |->
        [hops |-> {computed_routes[dst_node].next_hop},
         cost |-> computed_routes[dst_node].total_cost]]

\* HashMap::insert
insert(map, key, value) ==
    [k \in DOMAIN map \cup {key} |-> IF k = key THEN value ELSE map[k]]

\* SessionManager::broadcast_topology_update: one message per entry of sessions
broadcast_topology_update(topology_update) ==
    {[to |-> node_id, ttl |-> topology_update.ttl] : node_id \in TSessions}

\* The sequence numbers received updates carry: the last one before the wrap
\* and the ones after it
SeqOffered == {wrapping_add(SeqModulus - 1, k) : k \in 0..(SeqWindow - 1)}

\* The updates a session can hand to the node: about any other node, created
\* now or one clock step ago
TopologyUpdates ==
    [originator_node : TNodes \ {local_node_id},
     sequence_number : SeqOffered,
     ttl : 0..MaxTopoTtl,
     timestamp : {t \in {now, now - ClockStep} : t >= 0}]

\* the two rejections of TopologyDatabase::process_topology_update
accepts(update) ==
    /\ ~(saturating_sub(now, update.timestamp) > MAX_TOPOLOGY_AGE_SECS)
    /\ update.originator_node \in DOMAIN nodes
          => is_newer_than(update.sequence_number,
                           nodes[update.originator_node].sequence_number)

\* TopologyDatabase::process_topology_update on an update it accepts
process_topology_update(update) ==
    insert(nodes, update.originator_node,
           [sequence_number |-> update.sequence_number,
            last_updated |-> now,
            neighbors |-> neighbor_map(Adjacent(update.originator_node))])

\* A TopologyUpdate frame read by session S travels as an event to the manager
\* and on received_topology_tx to main, whose task processes it, refreshes the
\* routing table and hands the update with its ttl reduced to
\* broadcast_topology_update
ReceiveTopologyUpdate(S, update) ==
    /\ accepts(update)
    /\ nodes' = process_topology_update(update)
    /\ routes' = compute_routes(nodes')
    /\ table_routes' = update_routes_from_topology(routes')
    /\ highest_accepted' =
          insert(highest_accepted, update.originator_node,
                 IF update.originator_node \in DOMAIN highest_accepted
                    /\ highest_accepted[update.originator_node] > update.sequence_number
                 THEN highest_accepted[update.originator_node]
                 ELSE update.sequence_number)
    /\ topology_tx' =
          <<[from |-> <<S>>, update |-> update,
             sends |-> IF update.ttl > 1
                       THEN broadcast_topology_update([update EXCEPT !.ttl = @ - 1])
                       ELSE {}]>>
    /\ UNCHANGED <<now, local_sequence, local_updates>>
    /\ UNCHANGED notTopoVars

\* main on a Connected or Disconnected event: update_local_neighbors, then the
\* routing table, then the broadcast of the update it returned
UpdateLocalNeighbors ==
    /\ local_updates < MaxLocalUpdates
    /\ local_updates' = local_updates + 1
    /\ local_sequence' = wrapping_add(local_sequence, 1)
    /\ nodes' = insert(nodes, local_node_id,
                       [sequence_number |-> local_sequence,
                        last_updated |-> now,
                        neighbors |-> neighbor_map(TSessions)])
    /\ routes' = compute_routes(nodes')
    /\ table_routes' = update_routes_from_topology(routes')
    /\ topology_tx' =
          <<[from |-> <<>>,
             update |-> [originator_node |-> local_node_id,
                         sequence_number |-> local_sequence,
                         ttl |-> DEFAULT_TOPOLOGY_TTL, timestamp |-> now],
             sends |-> broadcast_topology_update([ttl |-> DEFAULT_TOPOLOGY_TTL])]>>
    /\ UNCHANGED <<now, highest_accepted>>
    /\ UNCHANGED notTopoVars

\* TopologyDatabase::cleanup_old_entries
CleanupOldEntries ==
    LET to_remove == {node_id \in DOMAIN nodes :
                        /\ node_id # local_node_id
                        /\ saturating_sub(now, nodes[node_id].last_updated)
                              > MAX_TOPOLOGY_AGE_SECS}
    IN /\ to_remove # {}
       /\ nodes' = [node_id \in DOMAIN nodes \ to_remove |-> nodes[node_id]]
       /\ routes' = compute_routes(nodes')
       /\ UNCHANGED <<now, local_sequence, table_routes, topology_tx, highest_accepted,
                      local_updates>>
       /\ UNCHANGED notTopoVars

\* the system clock advances
ClockTick ==
    /\ now < MaxTicks * ClockStep
    /\ now' = now + ClockStep
    /\ UNCHANGED <<nodes, routes, local_sequence, table_routes, topology_tx,
                   highest_accepted, local_updates>>
    /\ UNCHANGED notTopoVars

TReceive == \E S \in TSessions : \E update \in TopologyUpdates : ReceiveTopologyUpdate(S, update)

TopoNext ==
    \/ TReceive
    \/ UpdateLocalNeighbors
    \/ CleanupOldEntries
    \/ ClockTick

SpecTopo == Init /\ [][TopoNext]_vars

(* ------------------------------ sessions ------------------------------- *)
\* a certificate whose SAN holds no mesh://node/<id> URI
NoNodeIdCert == 0

\* What the transport hands the session: no certificate (plain TCP), or the
\* peer's certificate
PeerCerts == {None} \cup {Some(id) : id \in PeerIds \cup {NoNodeIdCert}}

\* transport::tls::extract_node_id_from_cert
extract_node_id_from_cert(cert) == IF cert = NoNodeIdCert THEN None ELSE Some(cert)

\* HashMap::remove
remove(map, key) == [k \in DOMAIN map \ {key} |-> map[k]]

\* The start of Session::run_inbound_with_messages up to the frame pump: the
\* node ID is taken from the certificate; the task returns an error where
\* that fails and verification is on
SessionStart(s, peer_cert, verify) ==
    /\ spc[s] = "idle"
    /\ verify_node_id' = [verify_node_id EXCEPT ![s] = verify]
    /\ IF peer_cert # None /\ extract_node_id_from_cert(peer_cert[1]) = None /\ verify
       THEN /\ spc' = [spc EXCEPT ![s] = "failed"]
            /\ UNCHANGED tls_node_id
       ELSE /\ spc' = [spc EXCEPT ![s] = "running"]
            /\ tls_node_id' = [tls_node_id EXCEPT ![s] =
                  IF peer_cert = None THEN None ELSE extract_node_id_from_cert(peer_cert[1])]
    /\ UNCHANGED <<peer_node_id, hellos, registry, manager_sessions, event_rx,
                   connected_sent, disconnected_sent>>
    /\ UNCHANGED notSessVars

hello_rejected_mutant(verify, tls_id, hello_node_id) ==
    verify /\ tls_id = None

\* the check of the Hello arm that ends in anyhow::bail!
hello_rejected(verify, tls_id, hello_node_id) ==
    verify /\ tls_id # None /\ tls_id[1] # hello_node_id

\* tls_node_id.unwrap_or(hello_node_id)
unwrap_or(option, default) == IF option = None THEN default ELSE option[1]

\* The Hello arm of the frame pump.  bail! returns from the task at once,
\* past the cleanup below the loop
ReceiveHello(s, hello_node_id) ==
    /\ spc[s] = "running"
    /\ Len(hellos[s]) < MaxHellos
    /\ hellos' = [hellos EXCEPT ![s] = Append(@, hello_node_id)]
    /\ IF hello_rejected(verify_node_id[s], tls_node_id[s], hello_node_id)
       THEN /\ spc' = [spc EXCEPT ![s] = "failed"]
            /\ UNCHANGED <<peer_node_id, registry, event_rx, connected_sent>>
       ELSE LET verified_node_id == unwrap_or(tls_node_id[s], hello_node_id)
            IN /\ peer_node_id' = [peer_node_id EXCEPT ![s] = Some(verified_node_id)]
               /\ registry' = insert(registry, verified_node_id, s)
               /\ event_rx' = Append(event_rx, [event |-> "Connected",
                                                remote_node_id |-> Some(verified_node_id)])
               /\ connected_sent' = [connected_sent EXCEPT ![s] = Append(@, verified_node_id)]
               /\ UNCHANGED spc
    /\ UNCHANGED <<verify_node_id, tls_node_id, manager_sessions, disconnected_sent>>
    /\ UNCHANGED notSessVars

\* The frame pump is left by break (read EOF or error, write error, idle
\* timeout, termination message) and the cleanup below the loop runs
SessionEnd(s) ==
    /\ spc[s] = "running"
    /\ spc' = [spc EXCEPT ![s] = "ended"]
    /\ registry' = IF peer_node_id[s] = None THEN registry
                   ELSE remove(registry, peer_node_id[s][1])
    /\ event_rx' = Append(event_rx, [event |-> "Disconnected",
                                     remote_node_id |-> peer_node_id[s]])
    /\ disconnected_sent' = [disconnected_sent EXCEPT ![s] = Append(@, peer_node_id[s])]
    /\ UNCHANGED <<verify_node_id, tls_node_id, peer_node_id, hellos, manager_sessions,
                   connected_sent>>
    /\ UNCHANGED notSessVars

\* SessionManager::handle_session_event on the next Connected or Disconnected event
HandleSessionEvent ==
    /\ event_rx # <<>>
    /\ event_rx' = Tail(event_rx)
    /\ LET event == Head(event_rx)
       IN manager_sessions' =
            IF event.event = "Connected"
            THEN IF event.remote_node_id[1] \in DOMAIN registry
                 THEN insert(manager_sessions, event.remote_node_id[1],
                             registry[event.remote_node_id[1]])
                 ELSE manager_sessions
            ELSE IF event.remote_node_id = None THEN manager_sessions
                 ELSE remove(manager_sessions, event.remote_node_id[1])
    /\ UNCHANGED <<spc, verify_node_id, tls_node_id, peer_node_id, hellos, registry,
                   connected_sent, disconnected_sent>>
    /\ UNCHANGED notSessVars

SStart == \E s \in Sessions : \E peer_cert \in PeerCerts : \E verify \in BOOLEAN :
            SessionStart(s, peer_cert, verify)

SHello == \E s \in Sessions : \E hello_node_id \in PeerIds : ReceiveHello(s, hello_node_id)

SEnd == \E s \in Sessions : SessionEnd(s)

SessNext ==
    \/ SStart
    \/ SHello
    \/ SEnd
    \/ HandleSessionEvent

SpecSess == Init /\ [][SessNext]_vars

(* -------------------------- failure tracker ---------------------------- *)
\* RoutingFailureTracker::record_failure: the FailureInfo it leaves for dst_node
record_failure(dst_node) ==
    LET failure_info == IF dst_node \in DOMAIN failures THEN failures[dst_node]
                        ELSE [count |-> 0, first_failure |-> instant,
                              interruption_notified |-> FALSE]
        counted == IF instant - failure_info.first_failure > failure_window
                   THEN [count |-> 1, first_failure |-> instant,
                         interruption_notified |-> FALSE]
                   ELSE [failure_info EXCEPT !.count = @ + 1]
    IN counted

\* should_notify of record_failure, taken on the counted FailureInfo
should_notify(failure_info) ==
    failure_info.count >= failure_threshold /\ ~failure_info.interruption_notified

\* EventNotifier::notify_routing_failure
notify_routing_failure(dst_node, consecutive_failures) ==
    IF consecutive_failures >= 3 THEN {<<"interrupted", dst_node>>} ELSE {}

\* the failure branches of handle_outbound_message: record_failure, then the handler
RecordFailure(key) ==
    LET counted == record_failure(key)
    IN /\ failures' = insert(failures, key,
                             [counted EXCEPT !.interruption_notified =
                                                @ \/ should_notify(counted)])
       /\ notifications' = IF should_notify(counted)
                           THEN notify_routing_failure(key, counted.count) ELSE {}

\* the success branch: RoutingFailureTracker::record_success, then the handler
RecordSuccess(key) ==
    /\ failures' = remove(failures, key)
    /\ notifications' = IF key \in DOMAIN failures /\ failures[key].interruption_notified
                        THEN {<<"recovered", key>>} ELSE {}

\* What routing_table.decide and the session lookup can come to for a message:
\* sent on to a next hop, no session or a closed channel for the next hop, or
\* no route
RoutingOutcomes ==
    [kind : {"sent", "send_failed", "no_session"}, next_hop : FNodes]
        \cup {[kind |-> "no_route", next_hop |-> 0]}

\* SessionManager::handle_outbound_message from the routing decision on, for a
\* message to another node
HandleOutbound(dst_node, outcome) ==
    /\ routed < MaxRouted
    /\ routed' = routed + 1
    /\ last_routed' = <<[dst_node |-> dst_node, sent |-> outcome.kind = "sent"]>>
    /\ IF outcome.kind = "sent" THEN RecordSuccess(outcome.next_hop)
       ELSE IF outcome.kind = "no_route" THEN RecordFailure(dst_node)
       ELSE RecordFailure(outcome.next_hop)
    /\ interrupted' = (interrupted \cup {e[2] : e \in {x \in notifications' : x[1] = "interrupted"}})
                         \ {e[2] : e \in {x \in notifications' : x[1] = "recovered"}}
    /\ UNCHANGED instant
    /\ UNCHANGED notFailVars

\* the monotonic clock advances
InstantTick ==
    /\ instant < MaxInstantSteps * InstantStep
    /\ instant' = instant + InstantStep
    /\ UNCHANGED <<failures, routed, last_routed, notifications, interrupted>>
    /\ UNCHANGED notFailVars

FRoute == \E dst_node \in FNodes : \E outcome \in RoutingOutcomes :
            HandleOutbound(dst_node, outcome)

FailNext ==
    \/ FRoute
    \/ InstantTick

SpecFail == Init /\ [][FailNext]_vars

(* --------------------------- storage interface ------------------------- *)

\* message ids offered to the storage calls: small ids and one id that lies
\* beyond the gap window of a fresh peer
StoreIds == (1..MaxStoreId) \cup {DEDUP_WINDOW + 1}

\* MemoryWal::append / FileWal::append: push the frame, set last_appended, Ok
append(msg_id, len) ==
    /\ Len(wal_entries) < MaxAppends
    /\ wal_entries' = Append(wal_entries, [msg_id |-> msg_id, len |-> len])
    /\ wal_last_appended' = msg_id
    /\ UNCHANGED <<next_msg_id, cum_acked, credits_bytes, pending_frames, wal_ack_state,
                   dedup_cum, dedup_gaps, recv_cum_processed, credits_avail, ack_pending,
                   connected, socket, rx_pos, acks, task, upward, resumes,
                   resume_snapshot>>
    /\ UNCHANGED notRelVars

\* MemoryDedup::mark_processed / FileDedup::mark_processed
mark_processed(msg_id) ==
    /\ dedup_cum' = MarkCum(msg_id)
    /\ dedup_gaps' = MarkGaps(msg_id)
    /\ marked_ids' = marked_ids \cup {msg_id}
    /\ UNCHANGED <<next_msg_id, cum_acked, credits_bytes, pending_frames, wal_entries,
                   wal_last_appended, wal_ack_state, recv_cum_processed, credits_avail,
                   ack_pending, connected, socket, rx_pos, acks, task, upward, resumes,
                   resume_snapshot>>
    /\ UNCHANGED <<meshVars, bcastVars, topoVars, sessVars, failVars, queueVars, trackVars, tableVars, raceVars, evVars, syncVars, readVars, pumpVars>>

\* MemoryDedup::advance_cum
advance_cum(id) ==
    /\ IF id > dedup_cum
       THEN /\ dedup_cum' = id
            /\ dedup_gaps' = {gap_id \in dedup_gaps : gap_id > id}
       ELSE UNCHANGED <<dedup_cum, dedup_gaps>>
    /\ UNCHANGED <<next_msg_id, cum_acked, credits_bytes, pending_frames, wal_entries,
                   wal_last_appended, wal_ack_state, recv_cum_processed, credits_avail,
                   ack_pending, connected, socket, rx_pos, acks, task, upward, resumes,
                   resume_snapshot>>
    /\ UNCHANGED notRelVars

StoreAppend == \E msg_id \in StoreIds : append(msg_id, FrameLen(SmallPayload))

StoreMark == \E msg_id \in StoreIds : mark_processed(msg_id)

StoreAdvance == \E id \in 1..MaxStoreId : advance_cum(id)

StoreNext ==
    \/ StoreAppend
    \/ StoreMark
    \/ StoreAdvance

SpecStore == Init /\ [][StoreNext]_vars

(* ------------------------ retry queue under time ----------------------- *)

QueuedIds == 1..MaxQueued

\* MessageQueue::queue_message: next_retry_at is the instant of the call
QueueMessage(msg_id) ==
    /\ msg_id \notin DOMAIN queue_status
    /\ queued_msgs' = With(queued_msgs, msg_id,
                           [retry_count |-> 0, next_retry_at |-> queue_now])
    /\ queue_status' = With(queue_status, msg_id, "Queued")
    /\ UNCHANGED <<queue_now, waiting_messages, routable, remote_subscribed, reports>>
    /\ UNCHANGED notQueueVars

\* start_retry_processor: what the run at time at does to a queued message
retried(q, at) ==
    [retry_count |-> q.retry_count + 1,
     next_retry_at |-> at + retry_delay(q.retry_count + 1)]

\* One run of the retry processor, retry_check_interval after the last one
RetryProcessorTick ==
    /\ queue_now < MaxQueueTicks * retry_check_interval
    /\ LET at == queue_now + retry_check_interval
           due == {m \in DOMAIN queued_msgs : at >= queued_msgs[m].next_retry_at}
           gone == {m \in due : retry_exhausted(queued_msgs[m].retry_count + 1)}
       IN /\ queue_now' = at
          /\ queued_msgs' = [m \in DOMAIN queued_msgs \ gone |->
                                IF m \in due THEN retried(queued_msgs[m], at)
                                ELSE queued_msgs[m]]
          /\ queue_status' = [m \in DOMAIN queue_status |->
                                IF m \in gone THEN "Undeliverable"
                                ELSE IF m \in due THEN "Queued"
                                ELSE queue_status[m]]
    /\ UNCHANGED <<waiting_messages, routable, remote_subscribed, reports>>
    /\ UNCHANGED notQueueVars

\* MeshDataService::handle_routing_feedback for a NoRoute drop reported by the
\* manager: it updates the tracker and does not call the queue
RoutingFeedbackNoRoute(msg_id) ==
    /\ ~routable
    /\ msg_id \in DOMAIN queued_msgs
    /\ queue_status[msg_id] = "Queued"
    /\ queue_status' = [queue_status EXCEPT ![msg_id] = "PendingNode"]
    /\ UNCHANGED <<queue_now, queued_msgs, waiting_messages, routable, remote_subscribed,
                   reports>>
    /\ UNCHANGED notQueueVars

\* MessageQueue::notify_node_online: queued_msgs afterwards
notify_node_online(waiting_msgs) ==
    [m \in DOMAIN queued_msgs |->
        IF \E i \in DOMAIN waiting_msgs : waiting_msgs[i] = m
        THEN [queued_msgs[m] EXCEPT !.next_retry_at = queue_now]
        ELSE queued_msgs[m]]

\* The manager's routing table gets a route to the node (a session to it
\* connects, or a topology update brings a path): no call into the queue
NodeBecomesRoutable ==
    /\ ~routable
    /\ routable' = TRUE
    /\ UNCHANGED <<queue_now, queued_msgs, waiting_messages, queue_status,
                   remote_subscribed, reports>>
    /\ UNCHANGED notQueueVars

\* A client subscribes at the remote node
RemoteSubscribes ==
    /\ ~remote_subscribed
    /\ remote_subscribed' = TRUE
    /\ UNCHANGED <<queue_now, queued_msgs, waiting_messages, queue_status, routable,
                   reports>>
    /\ UNCHANGED notQueueVars

\* MeshDataService::handle_delivery_status_message followed by
\* MessageQueue::handle_routing_feedback, for the report the remote node sends
\* about a message that reached it
DeliveryStatusReport(msg_id) ==
    /\ routable
    /\ reports < MaxReports
    /\ msg_id \in DOMAIN queue_status
    /\ reports' = reports + 1
    /\ LET status == IF remote_subscribed THEN "Delivered" ELSE "PendingClient"
       IN /\ queue_status' = [queue_status EXCEPT ![msg_id] = status]
          /\ IF status = "Delivered"
             THEN /\ queued_msgs' = IF msg_id \in DOMAIN queued_msgs
                                    THEN Without(queued_msgs, msg_id) ELSE queued_msgs
                  /\ UNCHANGED waiting_messages
             ELSE /\ waiting_messages' =
                        IF msg_id \in DOMAIN queued_msgs
                        THEN [waiting_messages EXCEPT
                                 !.ClientSubscription = Append(@, msg_id)]
                        ELSE waiting_messages
                  /\ UNCHANGED queued_msgs
    /\ UNCHANGED <<queue_now, routable, remote_subscribed>>
    /\ UNCHANGED notQueueVars

QQueue == \E msg_id \in QueuedIds : QueueMessage(msg_id)

QNoRoute == \E msg_id \in QueuedIds : RoutingFeedbackNoRoute(msg_id)

QReport == \E msg_id \in QueuedIds : DeliveryStatusReport(msg_id)

QueueNext ==
    \/ QQueue
    \/ RetryProcessorTick
    \/ QNoRoute
    \/ NodeBecomesRoutable
    \/ RemoteSubscribes
    \/ QReport

SpecQueue == Init /\ [][QueueNext]_vars

(* ---------------------- message tracker under time --------------------- *)

\* MessageRecord::is_completed
is_completed(status) ==
    status \in {"Delivered", "AckSuccess", "AckFailure", "Undeliverable"}

\* MessageRecord::should_cleanup at the instant at
should_cleanup(record, at) ==
    is_completed(record.status) /\ at - record.created_at > CLEANUP_RETENTION_SECONDS

\* the statuses send tracks a new message with
InitialStatuses == {"Queued", "Undeliverable"}

\* the statuses update_status is called with
UpdateStatuses == {"Queued", "PendingNode", "PendingClient", "Delivered", "Undeliverable"}

\* the instant at which a record got the completed status it has; None if it
\* has none (not a field of the record: kept to state the retention)
completed_at(record, status, at) ==
    IF ~is_completed(status) THEN None
    ELSE IF record.completed_at # None THEN record.completed_at
    ELSE Some(at)

\* MessageTracker::track_message
TrackMessage(status) ==
    /\ tracked_next <= MaxTracked
    /\ tracked_next' = tracked_next + 1
    /\ tracked' = With(tracked, tracked_next,
                       [status |-> status, created_at |-> track_now,
                        completed_at |-> IF is_completed(status) THEN Some(track_now)
                                         ELSE None])
    /\ UNCHANGED track_now
    /\ UNCHANGED notTrackVars

\* MessageTracker::update_status on an existing record
TrackerUpdateStatus(msg_id, status) ==
    /\ msg_id \in DOMAIN tracked
    /\ tracked[msg_id].status # status
    /\ tracked' = [tracked EXCEPT ![msg_id] =
                      [status |-> status, created_at |-> @.created_at,
                       completed_at |-> completed_at(@, status, track_now)]]
    /\ UNCHANGED <<track_now, tracked_next>>
    /\ UNCHANGED notTrackVars

\* One run of the task of start_cleanup_task, CLEANUP_INTERVAL_SECONDS after
\* the last one
CleanupTick ==
    /\ track_now < MaxCleanupTicks * CLEANUP_INTERVAL_SECONDS
    /\ LET at == track_now + CLEANUP_INTERVAL_SECONDS
           to_remove == {m \in DOMAIN tracked : should_cleanup(tracked[m], at)}
       IN /\ track_now' = at
          /\ tracked' = [m \in DOMAIN tracked \ to_remove |-> tracked[m]]
    /\ UNCHANGED tracked_next
    /\ UNCHANGED notTrackVars

TTrack == \E status \in InitialStatuses : TrackMessage(status)

TUpdate == \E msg_id \in 1..MaxTracked : \E status \in UpdateStatuses :
               TrackerUpdateStatus(msg_id, status)

TrackNext ==
    \/ TTrack
    \/ TUpdate
    \/ CleanupTick

SpecTrack == Init /\ [][TrackNext]_vars

(* ---------------------- routing table under refresh -------------------- *)

\* the destinations and next hops of the computed routes a refresh can bring
RtDsts == {2, 3}

ComputedRouteSets == UNION {[D -> TSessions] : D \in SUBSET RtDsts}

\* update_routes_from_topology up to its retain: the routes to every
\* destination but the local node are removed
RefreshRetain(computed_routes) ==
    /\ ~rt_running
    /\ rt_epoch < MaxRefreshes
    /\ rt_running' = TRUE
    /\ rt_old' = rt_routes
    /\ rt_new' = computed_routes
    /\ rt_todo' = DOMAIN computed_routes
    /\ rt_routes' = [dst \in {d \in DOMAIN rt_routes : d = local_node_id} |-> rt_routes[dst]]
    /\ UNCHANGED <<rt_epoch, rt_decision, rt_decisions>>
    /\ UNCHANGED notTableVars

\* one round of the for-loop of update_routes_from_topology, in the order the
\* HashMap yields the computed routes
RefreshInsert(dst_node) ==
    /\ rt_running
    /\ dst_node \in rt_todo
    /\ rt_routes' = With(rt_routes, dst_node, rt_new[dst_node])
    /\ rt_todo' = rt_todo \ {dst_node}
    /\ UNCHANGED <<rt_epoch, rt_old, rt_new, rt_running, rt_decision, rt_decisions>>
    /\ UNCHANGED notTableVars

\* the end of update_routes_from_topology: the epoch is advanced
RefreshEpoch ==
    /\ rt_running
    /\ rt_todo = {}
    /\ rt_epoch' = rt_epoch + 1
    /\ rt_running' = FALSE
    /\ UNCHANGED <<rt_routes, rt_old, rt_new, rt_todo, rt_decision, rt_decisions>>
    /\ UNCHANGED notTableVars

\* RoutingTable::get_route, 0 standing for None
get_route(dst_node) ==
    IF dst_node \in DOMAIN rt_routes THEN rt_routes[dst_node] ELSE 0

\* RoutingTable::decide called by the manager task
TableDecide(dst_node) ==
    /\ rt_decisions < MaxDecisions
    /\ rt_decisions' = rt_decisions + 1
    /\ rt_decision' = <<dst_node, decide(local_node_id, dst_node, ROUTING_CONTEXT_TTL,
                                         get_route(dst_node))>>
    /\ UNCHANGED <<rt_routes, rt_epoch, rt_old, rt_new, rt_todo, rt_running>>
    /\ UNCHANGED notTableVars

RtRetain == \E computed_routes \in ComputedRouteSets : RefreshRetain(computed_routes)

RtInsert == \E dst_node \in RtDsts : RefreshInsert(dst_node)

RtDecide == \E dst_node \in RtDsts : TableDecide(dst_node)

TableNext ==
    \/ RtRetain
    \/ RtInsert
    \/ RefreshEpoch
    \/ RtDecide

SpecTable == Init /\ [][TableNext]_vars

(* ------------- retry processor against delivery feedback -------------- *)

\* MessageQueue::queue_message
RqQueue ==
    /\ rq_next <= MaxRaceMsgs
    /\ rq_next' = rq_next + 1
    /\ rq_pending' = With(rq_pending, rq_next, 0)
    /\ UNCHANGED <<rq_to_retry, rq_held, rq_fed>>
    /\ UNCHANGED notRaceVars

\* start_retry_processor, the first loop of a tick: the ids found due
RqCollect(due) ==
    /\ rq_to_retry = {}
    /\ rq_held = None
    /\ due # {}
    /\ \A m \in due : rq_pending[m] < MaxRaceRetries
    /\ rq_to_retry' = due
    /\ UNCHANGED <<rq_pending, rq_held, rq_fed, rq_next>>
    /\ UNCHANGED notRaceVars

\* start_retry_processor, second loop: pending_messages.remove(&msg_id)
RqRemove(msg_id) ==
    /\ rq_held = None
    /\ msg_id \in rq_to_retry
    /\ rq_to_retry' = rq_to_retry \ {msg_id}
    /\ IF msg_id \in DOMAIN rq_pending
       THEN /\ rq_pending' = Without(rq_pending, msg_id)
            /\ rq_held' = IF retry_exhausted(rq_pending[msg_id] + 1) THEN None
                          ELSE Some(<<msg_id, rq_pending[msg_id] + 1>>)
       ELSE UNCHANGED <<rq_pending, rq_held>>
    /\ UNCHANGED <<rq_fed, rq_next>>
    /\ UNCHANGED notRaceVars

\* start_retry_processor, second loop: the message was sent again and
\* pending_messages.insert(msg_id, queued_msg) puts it back
RqReinsert ==
    /\ rq_held # None
    /\ rq_pending' = With(rq_pending, rq_held[1][1], rq_held[1][2])
    /\ rq_held' = None
    /\ UNCHANGED <<rq_to_retry, rq_fed, rq_next>>
    /\ UNCHANGED notRaceVars

\* MessageQueue::handle_message_delivered / handle_message_acked
handle_message_delivered(msg_id) ==
    /\ msg_id < rq_next
    /\ msg_id \notin rq_fed
    /\ rq_fed' = rq_fed \cup {msg_id}
    /\ rq_pending' = IF msg_id \in DOMAIN rq_pending THEN Without(rq_pending, msg_id)
                     ELSE rq_pending
    /\ UNCHANGED <<rq_to_retry, rq_held, rq_next>>
    /\ UNCHANGED notRaceVars

RqTick == \E due \in SUBSET DOMAIN rq_pending : RqCollect(due)

RqTake == \E msg_id \in 1..MaxRaceMsgs : RqRemove(msg_id)

RqFeedback == \E msg_id \in 1..MaxRaceMsgs : handle_message_delivered(msg_id)

RaceNext ==
    \/ RqQueue
    \/ RqTick
    \/ RqTake
    \/ RqReinsert
    \/ RqFeedback

SpecRace == Init /\ [][RaceNext]_vars

(* ------------- local topology updates after session events ------------ *)

\* the database that holds the local record alone
LocalDb(record) ==
    [n \in {local_node_id} |-> [sequence_number |-> record.sequence_number,
                                last_updated |-> 0,
                                neighbors |-> neighbor_map(record.neighbors)]]

\* tokio::spawn in the Connected and Disconnected arms: the task gets the
\* neighbours the event loop holds at that moment
SpawnUpdate(neighbors) ==
    ev_tasks' = Append(ev_tasks, [neighbors |-> neighbors, pc |-> "db",
                                  computed_routes |-> <<>>])

\* the event loop of main handling SessionEvent::Connected
EvConnected(remote_node_id) ==
    /\ Len(ev_tasks) < MaxEvents
    /\ remote_node_id \notin connected_neighbors
    /\ connected_neighbors' = connected_neighbors \cup {remote_node_id}
    /\ SpawnUpdate(connected_neighbors')
    /\ UNCHANGED <<ev_record, ev_sequence, ev_table>>
    /\ UNCHANGED notEvVars

\* the event loop of main handling SessionEvent::Disconnected
EvDisconnected(remote_node_id) ==
    /\ Len(ev_tasks) < MaxEvents
    /\ remote_node_id \in connected_neighbors
    /\ connected_neighbors' = connected_neighbors \ {remote_node_id}
    /\ SpawnUpdate(connected_neighbors')
    /\ UNCHANGED <<ev_record, ev_sequence, ev_table>>
    /\ UNCHANGED notEvVars

\* a spawned task under the write lock of the database:
\* update_local_neighbors, then the computed routes are cloned
TaskUpdateDb(t) ==
    /\ t \in DOMAIN ev_tasks
    /\ ev_tasks[t].pc = "db"
    /\ ev_record' = [sequence_number |-> ev_sequence, neighbors |-> ev_tasks[t].neighbors]
    /\ ev_sequence' = wrapping_add(ev_sequence, 1)
    /\ ev_tasks' = [ev_tasks EXCEPT ![t] =
                       [@ EXCEPT !.pc = "table",
                                 !.computed_routes = compute_routes(LocalDb(ev_record'))]]
    /\ UNCHANGED <<connected_neighbors, ev_table>>
    /\ UNCHANGED notEvVars

\* the same task after drop(db): update_routes_from_topology
TaskUpdateTable(t) ==
    /\ t \in DOMAIN ev_tasks
    /\ ev_tasks[t].pc = "table"
    /\ ev_table' = update_routes_from_topology(ev_tasks[t].computed_routes)
    /\ ev_tasks' = [ev_tasks EXCEPT ![t] = [@ EXCEPT !.pc = "done"]]
    /\ UNCHANGED <<connected_neighbors, ev_record, ev_sequence>>
    /\ UNCHANGED notEvVars

EvConnect == \E remote_node_id \in TSessions : EvConnected(remote_node_id)

EvDisconnect == \E remote_node_id \in TSessions : EvDisconnected(remote_node_id)

EvDb == \E t \in 1..MaxEvents : TaskUpdateDb(t)

EvTable == \E t \in 1..MaxEvents : TaskUpdateTable(t)

EvNext ==
    \/ EvConnect
    \/ EvDisconnect
    \/ EvDb
    \/ EvTable

SpecEv == Init /\ [][EvNext]_vars

(* ------------- topology updates on their way to the peers ------------- *)

\* the record a TopologyUpdate carries
SyUpdate(originator_node, record) ==
    [originator_node |-> originator_node,
     sequence_number |-> record.sequence_number,
     neighbors |-> record.neighbors]

\* TopologyDatabase::get_all_topology_updates: one update per known node other
\* than the local one, in some order of the map
get_all_topology_updates(ns) ==
    LET others == DOMAIN ns \ {local_node_id}
        RECURSIVE InOrder(_)
        InOrder(S) ==
            IF S = {} THEN <<>>
            ELSE LET n == SetMin(S) IN <<SyUpdate(n, ns[n])>> \o InOrder(S \ {n})
    IN InOrder(others)

\* TopologyDatabase::process_topology_update of a node whose clock agrees with
\* the sender's: the update is stored unless the record held is as new
SyProcess(ns, update) ==
    IF update.originator_node \in DOMAIN ns
       /\ ~is_newer_than(update.sequence_number,
                         ns[update.originator_node].sequence_number)
    THEN ns
    ELSE insert(ns, update.originator_node,
                [sequence_number |-> update.sequence_number,
                 neighbors |-> update.neighbors])

\* A session of the local node has received the peer's Hello: main's event
\* loop forwards the Connected event to the manager, adds the neighbour and
\* spawns the task that updates the database
SyConnected(remote_node_id) ==
    /\ remote_node_id \notin sy_connected
    /\ sy_event_rx' = Append(sy_event_rx, remote_node_id)
    /\ sy_connected' = sy_connected \cup {remote_node_id}
    /\ sy_tasks' = Append(sy_tasks, [remote_node_id |-> remote_node_id,
                                     neighbors |-> sy_connected', pc |-> "spawned"])
    /\ UNCHANGED <<sy_nodes, sy_sequence, sy_topology_rx, sy_sessions, sy_announced,
                   sy_peer_nodes>>
    /\ UNCHANGED notSyncVars

\* The task spawned for Connected: the snapshot is taken, the local record is
\* written, and the local update and then the snapshot go to topology_update_tx
SyTaskRuns(t) ==
    /\ t \in DOMAIN sy_tasks
    /\ sy_tasks[t].pc = "spawned"
    /\ LET existing_topology_updates == get_all_topology_updates(sy_nodes)
           record == [sequence_number |-> sy_sequence, neighbors |-> sy_tasks[t].neighbors]
       IN /\ sy_nodes' = insert(sy_nodes, local_node_id, record)
          /\ sy_sequence' = wrapping_add(sy_sequence, 1)
          /\ sy_topology_rx' = sy_topology_rx \o <<SyUpdate(local_node_id, record)>>
                                  \o existing_topology_updates
    /\ sy_tasks' = [sy_tasks EXCEPT ![t] = [@ EXCEPT !.pc = "done"]]
    /\ UNCHANGED <<sy_connected, sy_event_rx, sy_sessions, sy_announced, sy_peer_nodes>>
    /\ UNCHANGED notSyncVars

\* SessionManager::run taking the event_rx branch of its select!:
\* handle_session_event on Connected registers the session
SyManagerEvent ==
    /\ sy_event_rx # <<>>
    /\ sy_sessions' = sy_sessions \cup {Head(sy_event_rx)}
    /\ sy_event_rx' = Tail(sy_event_rx)
    /\ UNCHANGED <<sy_connected, sy_tasks, sy_nodes, sy_sequence, sy_topology_rx,
                   sy_announced, sy_peer_nodes>>
    /\ UNCHANGED notSyncVars

\* SessionManager::run taking the topology_update_rx branch of its select!:
\* broadcast_topology_update hands the update to every session of the map, and
\* each peer processes what its session delivers
SyManagerBroadcast ==
    /\ sy_topology_rx # <<>>
    /\ sy_peer_nodes' =
          [p \in DOMAIN sy_peer_nodes |->
              IF p \in sy_sessions
              THEN SyProcess(sy_peer_nodes[p], Head(sy_topology_rx))
              ELSE sy_peer_nodes[p]]
    /\ sy_topology_rx' = Tail(sy_topology_rx)
    /\ UNCHANGED <<sy_connected, sy_tasks, sy_nodes, sy_sequence, sy_event_rx,
                   sy_sessions, sy_announced>>
    /\ UNCHANGED notSyncVars

\* A connected peer's own first record arrives on received_topology_rx: main's
\* task stores it and hands it to topology_update_tx for flooding
SyPeerAnnounces(p) ==
    /\ p \in sy_connected
    /\ p \notin sy_announced
    /\ sy_announced' = sy_announced \cup {p}
    /\ LET update == [originator_node |-> p, sequence_number |-> 1,
                      neighbors |-> {local_node_id}]
       IN /\ sy_nodes' = SyProcess(sy_nodes, update)
          /\ sy_topology_rx' = Append(sy_topology_rx, update)
    /\ UNCHANGED <<sy_connected, sy_tasks, sy_sequence, sy_event_rx, sy_sessions,
                   sy_peer_nodes>>
    /\ UNCHANGED notSyncVars

SyConnect == \E remote_node_id \in TSessions : SyConnected(remote_node_id)

SyTask == \E t \in 1..Cardinality(TSessions) : SyTaskRuns(t)

SyAnnounce == \E p \in TSessions : SyPeerAnnounces(p)

SyncNext ==
    \/ SyConnect
    \/ SyTask
    \/ SyManagerEvent
    \/ SyManagerBroadcast
    \/ SyAnnounce

SpecSync == Init /\ [][SyncNext]_vars

\* every task and the manager's loop are scheduled again and again; which
\* ready branch the manager's select! takes is not determined
FairSync ==
    /\ SpecSync
    /\ WF_vars(SyConnect)
    /\ WF_vars(SyTask)
    /\ WF_vars(SyManagerEvent)
    /\ WF_vars(SyManagerBroadcast)
    /\ WF_vars(SyAnnounce)
(* --------------- a restarted node among peers that kept on -------------- *)

\* The local process starts again, here at a moment when the manager's channels
\* are drained: TopologyDatabase::new and an empty sessions map.  The peers
\* keep their databases
SyRestart ==
    /\ local_node_id \in DOMAIN sy_nodes
    /\ sy_event_rx = <<>>
    /\ sy_topology_rx = <<>>
    /\ sy_connected' = {}
    /\ sy_tasks' = <<>>
    /\ sy_nodes' = <<>>
    /\ sy_sequence' = 1
    /\ sy_event_rx' = <<>>
    /\ sy_topology_rx' = <<>>
    /\ sy_sessions' = {}
    /\ UNCHANGED <<sy_announced, sy_peer_nodes>>
    /\ UNCHANGED notSyncVars

\* A connected peer's task for Connected sends its snapshot, one update per
\* node it knows other than itself: the update about originator_node arrives on
\* received_topology_rx and main's task runs process_topology_update on it
SyReceivesSnapshot(p, originator_node) ==
    /\ p \in sy_connected
    /\ originator_node \in DOMAIN sy_peer_nodes[p] \ {p}
    /\ LET update == SyUpdate(originator_node, sy_peer_nodes[p][originator_node])
       IN /\ SyProcess(sy_nodes, update) # sy_nodes
          /\ sy_nodes' = SyProcess(sy_nodes, update)
          /\ sy_topology_rx' = Append(sy_topology_rx, update)
    /\ UNCHANGED <<sy_connected, sy_tasks, sy_sequence, sy_event_rx, sy_sessions,
                   sy_announced, sy_peer_nodes>>
    /\ UNCHANGED notSyncVars

SySnapshot ==
    \E p \in TSessions : \E originator_node \in TNodes : SyReceivesSnapshot(p, originator_node)

ReplayNext ==
    \/ SyConnect
    \/ SyTask
    \/ SyManagerEvent
    \/ SyManagerBroadcast
    \/ SyRestart
    \/ SySnapshot

SpecReplay == Init /\ [][ReplayNext]_vars
(* --------------------- frames out of the read buffer ------------------- *)

\* u32::to_be_bytes of a frame length
to_be_bytes(frame_len) ==
    <<(frame_len \div 16777216) % 256, (frame_len \div 65536) % 256,
      (frame_len \div 256) % 256, frame_len % 256>>

\* u32::from_be_bytes
from_be_bytes(b) == ((b[1] * 256 + b[2]) * 256 + b[3]) * 256 + b[4]

\* a frame on the wire: the length, then the body
FrameBytes(body) == to_be_bytes(Len(body)) \o body

\* FrameDecoder::decode: the frame at the head of the buffer and the buffer
\* left after it, or nothing while the length or the body is incomplete
decode(buf) ==
    IF Len(buf) < 4 THEN <<>>
    ELSE LET frame_len == from_be_bytes(SubSeq(buf, 1, 4))
         IN IF Len(buf) < 4 + frame_len THEN <<>>
            ELSE <<[frame |-> SubSeq(buf, 5, 4 + frame_len),
                    rest |-> SubSeq(buf, 5 + frame_len, Len(buf))]>>

\* the peer writes one frame; its body holds the frame's number
PeerWrites(body_len) ==
    /\ rd_sent < MaxReadFrames
    /\ rd_sent' = rd_sent + 1
    /\ rd_stream' = rd_stream \o FrameBytes([i \in 1..body_len |-> rd_sent'])
    /\ UNCHANGED <<read_buffer, rd_dispatched>>
    /\ UNCHANGED notReadVars

\* One turn of the loop of recv_any_frame: read_buf returns bytes_read bytes of
\* the stream, then decode is tried once.  A frame decoded is returned and the
\* session dispatches it; the next call starts with read_buf again
RecvAnyFrame(bytes_read) ==
    /\ bytes_read \in 1..Len(rd_stream)
    /\ rd_stream' = SubSeq(rd_stream, bytes_read + 1, Len(rd_stream))
    /\ LET buffer == read_buffer \o SubSeq(rd_stream, 1, bytes_read)
       IN IF decode(buffer) = <<>>
          THEN /\ read_buffer' = buffer
               /\ UNCHANGED rd_dispatched
          ELSE /\ read_buffer' = decode(buffer)[1].rest
               /\ rd_dispatched' = Append(rd_dispatched, decode(buffer)[1].frame)
    /\ UNCHANGED rd_sent
    /\ UNCHANGED notReadVars

RdWrite == \E body_len \in 1..MaxBodyLen : PeerWrites(body_len)

RdRecv == \E bytes_read \in 1..(MaxReadFrames * (4 + MaxBodyLen)) : RecvAnyFrame(bytes_read)

ReadNext ==
    \/ RdWrite
    \/ RdRecv

SpecRead == Init /\ [][ReadNext]_vars

\* the session task is scheduled whenever its read can return; the peer is
\* free to stop writing
FairRead == SpecRead /\ WF_vars(RdRecv)
(* ------------------- data frames in the frame pump --------------------- *)

\* the events the Data and the TopologyUpdate arm send
FrameEvents == [Data |-> "MessageReceived", TopologyUpdate |-> "TopologyUpdate"]

\* The Data arm and the TopologyUpdate arm of the frame pump: the frame is
\* turned into its event and sent on event_tx for the session manager
ReceiveFrame(s, typ) ==
    /\ spc[s] = "running"
    /\ surfaced' = surfaced \cup {[event |-> FrameEvents[typ],
                                   connected |-> connected_sent[s] # <<>>]}
    /\ UNCHANGED sessVars
    /\ UNCHANGED <<relVars, meshVars, bcastVars, topoVars, failVars, storeVars, queueVars,
                   trackVars, tableVars, raceVars, evVars, syncVars, readVars>>

SFrame == \E s \in Sessions : \E typ \in DOMAIN FrameEvents : ReceiveFrame(s, typ)

PumpNext ==
    \/ SStart
    \/ SHello
    \/ SFrame
    \/ SEnd

SpecPump == Init /\ [][PumpNext]_vars
(* ------------------------------- claims -------------------------------- *)
\* C1 (as claimed): no msg_id is handed upward more than once
C1_HandedUpwardOnce == \A m \in MsgIds : upward[m] <= 1

\* C3 (as claimed): Data frames are written to one connection in increasing msg_id order
C3_WrittenInOrder ==
    \A i \in 1..Len(socket) : \A j \in 1..Len(socket) :
        i < j => socket[i].msg_id < socket[j].msg_id

\* the WAL entries a RESUME asks for have all been written to the new connection
RetransmittedAll ==
    \A m \in MsgIds :
        (m > resume_snapshot.r /\ m > resume_snapshot.acked /\ m <= resume_snapshot.last)
            => \E i \in 1..Len(socket) : socket[i].msg_id = m

\* C4 (as claimed): after a RESUME the sender eventually retransmits every WAL
\* entry above receiver_cum_proc, unless the connection is lost first
C4_ResumeRetransmitsAll == [](connected => <>(~connected \/ RetransmittedAll))

\* C5 (as claimed): A sent 1..5, B acknowledged through 2, the connection was lost;
\* after the RESUME A writes 3, 4, 5 in order, each once
C5_ReconnectWritesThreeFourFive ==
    (resumes = 2 /\ resume_snapshot = [r |-> 2, last |-> 5, acked |-> 2])
        => IsPrefix(SocketIds, <<3, 4, 5>>)

\* C2 (as claimed): a Data frame with msg_id m >= 1 is on a socket only if the
\* WAL's last_appended is at least m
C2_AppendedBeforeWritten ==
    /\ \A i \in 1..Len(socket) : socket[i].msg_id <= wal_last_appended
    /\ \A n \in Nodes : \A i \in 1..Len(link[n]) :
          link[n][i].message.msg_id >= 1 => wal_last_appended >= link[n][i].message.msg_id

\* C6 (as claimed): once the application of the destination has acknowledged
\* success for a message sent in WaitForAck mode, the sender's record of the
\* message eventually shows AckSuccess
C6_AckSuccessReachesSender ==
    \A n \in Nodes : \A p \in Nodes \ {n} : \A m \in MeshMsgIds :
        (/\ m \in DOMAIN waiter[n]
         /\ waiter[n][m].mode = "WaitForAck"
         /\ <<n, m>> \in DOMAIN acked_messages[p]
         /\ acked_messages[p][<<n, m>>])
            ~> (m \in DOMAIN records[n] /\ records[n][m].status = "AckSuccess")

\* C7 (as claimed): a subscriber is handed a message, which the application sent
\* once, at most one time
C7_SubscriberReceivesOnce ==
    \A n \in Nodes : \A k \in DOMAIN received[n] : received[n][k] <= 1

\* C8 (as claimed): the retry scheduler does not send a message again whose
\* record holds a terminal status
C8_NoRetryOfTerminal ==
    [][\A n \in Nodes : \A m \in DOMAIN pending_messages[n] :
          (m \in DOMAIN records[n] /\ Terminal(records[n][m]))
              => ~(/\ m \in DOMAIN pending_messages'[n]
                   /\ pending_messages'[n][m].retry_count
                          > pending_messages[n][m].retry_count)]_vars

\* C10 (as claimed): a forwarded Data frame carries a TTL one lower than the TTL
\* it arrived with, and never 0
C10_TtlDecrementedOnForward ==
    \A n \in Nodes : \A i \in 1..Len(link[n]) :
        /\ link[n][i].ttl >= 1
        /\ link[n][i].arrived_ttl # 0 => link[n][i].ttl = link[n][i].arrived_ttl - 1

\* The retry loop has given a message up: its record is Undeliverable with the
\* loop's text and the queue no longer holds it
C9_Exhausted ==
    \E n \in Nodes : \E m \in DOMAIN records[n] :
        /\ records[n][m].status = "Undeliverable"
        /\ records[n][m].status_message = "max retry attempts exceeded"
        /\ m \notin DOMAIN pending_messages[n]

RetryStepBounded ==
    \A n \in Nodes : \A m \in DOMAIN records[n] :
        IF m \in DOMAIN pending_messages[n]
        THEN LET rc == pending_messages[n][m].retry_count
             IN /\ m \in DOMAIN pending_messages'[n] =>
                      /\ pending_messages'[n][m].retry_count \in {rc, rc + 1}
                      /\ rc = max_retry_attempts => pending_messages'[n][m].retry_count = rc
                /\ (m \notin DOMAIN pending_messages'[n] /\ delivery' = delivery) =>
                      /\ rc = max_retry_attempts
                      /\ records'[n][m].status = "Undeliverable"
        ELSE m \notin DOMAIN pending_messages'[n]

\* C9: every message the queue holds has retry_count <= max_retry_attempts; the
\* retry loop removes a message only when it has used max_retry_attempts
\* retries, marking it Undeliverable, and a message the queue no longer holds
\* is never scheduled again
C9_RetryCountBounded ==
    /\ [](\A n \in Nodes : \A m \in DOMAIN pending_messages[n] :
             pending_messages[n][m].retry_count <= max_retry_attempts)
    /\ [][RetryStepBounded]_vars

\* times node n handed the broadcast (src, payload) to its delivery channel
DeliveredCount(n, src, payload) ==
    IF <<src, payload>> \in DOMAIN bdelivery[n] THEN bdelivery[n][<<src, payload>>] ELSE 0

\* the nodes a flood starting at the nodes of S reaches over the sessions
RECURSIVE FloodReach(_)
FloodReach(S) ==
    LET T == S \cup UNION {bsessions[m] : m \in S}
    IN IF T = S THEN S ELSE FloodReach(T)

\* the manager of src is about to handle a broadcast (src, b) it has not seen,
\* with no TTL limit
FreshAtSource(src, b) ==
    /\ boutbound[src] # <<>>
    /\ Head(boutbound[src]).broadcast_id = Some(b)
    /\ Head(boutbound[src]).broadcast_ttl = None
    /\ <<src, b>> \notin broadcast_cache[src]

\* C11 (as claimed): every node other than the source that the mesh connects
\* to the source delivers a broadcast (src, broadcast_id) locally exactly once
C11_BroadcastDeliveredExactlyOnce ==
    \A src \in BNodes : \A n \in BNodes \ {src} :
        /\ [](\A b \in 1..MaxBroadcastId : DeliveredCount(n, src, b) <= 1)
        /\ (FreshAtSource(src, MaxBroadcastId) /\ n \in FloodReach({src}))
              ~> (DeliveredCount(n, src, MaxBroadcastId) = 1)

\* a first copy of broadcast (src, b), sent with a TTL that is not 0, is the
\* next frame node n reads from node m
FreshFromPeer(m, n, src, b) ==
    /\ bsocket[<<m, n>>] # <<>>
    /\ Head(bsocket[<<m, n>>]).src = src
    /\ Head(bsocket[<<m, n>>]).payload = b
    /\ DeliveredCount(n, src, b) = 0
    /\ \E e \in bforwarded :
          /\ e.from = m /\ e.to = n /\ e.src = src /\ e.payload = b
          /\ e.broadcast_ttl # Some(0)

ForwardedTo(n, p, src, b) ==
    \E e \in bforwarded : e.from = n /\ e.to = p /\ e.src = src /\ e.payload = b

\* C12 (as claimed): a node that handles a fresh broadcast with a TTL above 0,
\* its own or one received from a peer, delivers it locally and forwards it to
\* every connected peer except the originator
C12_FreshBroadcastForwarded ==
    \A src \in BNodes : \A n \in BNodes \ {src} : \A p \in BNodes \ {n, src} :
        /\ (FreshAtSource(src, MaxBroadcastId) /\ n \in bsessions[src])
              ~> (/\ DeliveredCount(src, src, MaxBroadcastId) >= 1
                  /\ ForwardedTo(src, n, src, MaxBroadcastId))
        /\ (FreshFromPeer(src, n, src, MaxBroadcastId) /\ p \in bsessions[n])
              ~> (/\ DeliveredCount(n, src, MaxBroadcastId) >= 1
                  /\ ForwardedTo(n, p, src, MaxBroadcastId))

\* C13 (as claimed): a manager that handles a fresh broadcast whose
\* broadcast_ttl is 0 forwards nothing and hands it to local delivery once
C13_TtlZeroDeliveredLocally ==
    [][\A n \in BNodes :
          (/\ boutbound[n] # <<>>
           /\ boutbound'[n] = Tail(boutbound[n])
           /\ Head(boutbound[n]).broadcast_ttl = Some(0)
           /\ ~is_cached_duplicate(n, Head(boutbound[n])))
              => /\ message_tx' = message_tx
                 /\ bdelivery'[n] = deliver_locally(bdelivery[n], Head(boutbound[n]).src,
                                                    Head(boutbound[n]).payload)]_vars

\* sequence number a is reached from b by 1 .. 2^(SeqBits-1) - 1 increments
ModularNewer(a, b) == \E k \in 1..(SeqModulus \div 2 - 1) : a = (b + k) % SeqModulus

\* a step in which the stored record of N was written by process_topology_update
RecordAccepted(N) ==
    /\ N \in DOMAIN nodes'
    /\ N \notin DOMAIN nodes \/ nodes'[N] # nodes[N]

\* the update that wrote the record of N was from N, at most 300 s old, and
\* strictly newer under modular comparison than the record it replaced
FreshAndNewer(N) ==
    /\ topology_tx' # <<>>
    /\ topology_tx'[1].update.originator_node = N
    /\ topology_tx'[1].update.sequence_number = nodes'[N].sequence_number
    /\ now - topology_tx'[1].update.timestamp <= MAX_TOPOLOGY_AGE_SECS
    /\ N \in DOMAIN nodes =>
          ModularNewer(nodes'[N].sequence_number, nodes[N].sequence_number)

\* C14 (as claimed): once an update with sequence number s from N was accepted,
\* the stored record of N never has a sequence number below s, and a record is
\* only written by an update at most 300 s old whose sequence number is
\* strictly newer, under modular comparison, than the one stored
C14_StoredSequenceNeverBelowAccepted ==
    /\ [](\A N \in DOMAIN highest_accepted :
            N \in DOMAIN nodes => nodes[N].sequence_number >= highest_accepted[N])
    /\ [][\A N \in TNodes \ {local_node_id} : RecordAccepted(N) => FreshAndNewer(N)]_vars

\* C14 (amended): the record of a node other than the local one is only written
\* by an update from that node that is at most 300 s old, the record takes the
\* update's sequence number, and where a record was stored already the new
\* sequence number is strictly newer under modular comparison, also across the
\* wraparound; the stored number can therefore be numerically below one
\* accepted earlier
C14_AcceptedOnlyIfFreshAndNewer ==
    [][\A N \in TNodes \ {local_node_id} :
          RecordAccepted(N) => FreshAndNewer(N) /\ nodes'[N].last_updated = now]_vars

\* an update numbered 0 was accepted over a stored record numbered 2^SeqBits - 1
C14_AcceptedAcrossWraparound ==
    \E N \in DOMAIN nodes \cap DOMAIN highest_accepted :
        /\ nodes[N].sequence_number = 0
        /\ highest_accepted[N] = SeqModulus - 1

\* C15 (as claimed): an accepted update that arrived on session S with ttl t is
\* put, with ttl t - 1, on every connected session except S and never on S
\* itself, and with t = 0 on none
C15_ForwardedToAllButSender ==
    (topology_tx # <<>> /\ topology_tx[1].from # <<>>) =>
        LET S == topology_tx[1].from[1]
            t == topology_tx[1].update.ttl
            sends == topology_tx[1].sends
        IN /\ \A e \in sends : e.to # S /\ e.ttl = t - 1
           /\ t = 0 => sends = {}
           /\ t > 1 => {e.to : e \in sends} = TSessions \ {S}

\* the nodes whose records the computed route to v runs through
RECURSIVE route_records(_, _, _)
route_records(ns, d, v) ==
    IF previous(ns, d, v) = local_node_id THEN {local_node_id}
    ELSE {previous(ns, d, v)} \cup route_records(ns, d, previous(ns, d, v))

\* C16 (as claimed): after a step that recomputes the routes, no computed route
\* runs through the record of another node that is older than 300 s
C16_NoRouteThroughStaleRecord ==
    [][nodes' # nodes =>
          \A dst_node \in DOMAIN routes' :
              \A u \in route_records(nodes', distances(nodes', local_node_id), dst_node)
                          \ {local_node_id} :
                  now' - nodes'[u].last_updated <= MAX_TOPOLOGY_AGE_SECS]_vars

\* the neighbours of the local node through which dst_node is reached at the
\* least total cost
TiedNextHops(ns, dst_node) ==
    LET d == distances(ns, local_node_id)
    IN {h \in DOMAIN ns[local_node_id].neighbors :
           /\ dst_node \in DOMAIN distances(ns, h)
           /\ ns[local_node_id].neighbors[h] + distances(ns, h)[dst_node] = d[dst_node]}

\* C17 (as claimed): every next hop that reaches a destination at the least
\* total cost is in the destination's hop set
C17_AllTiedNextHopsInHopSet ==
    local_node_id \in DOMAIN nodes =>
        \A dst_node \in DOMAIN table_routes \cap DOMAIN distances(nodes, local_node_id) :
            TiedNextHops(nodes, dst_node) \subseteq table_routes[dst_node].hops

\* the running sessions whose HELLO exchange gave them peer N
ConnectedTo(N) == {s \in Sessions : spc[s] = "running" /\ peer_node_id[s] = Some(N)}

\* no event about N is waiting for the manager
EventsHandled(N) ==
    \A i \in DOMAIN event_rx : event_rx[i].remote_node_id # Some(N)

\* C18 (as claimed): a peer node ID is served by at most one session, and while
\* a connected session to N runs, the registry holds for N the channel of a
\* running session, and so does the manager's sessions map once it has handled
\* the events about N
C18_OneSessionPerPeer ==
    \A N \in PeerIds :
        /\ Cardinality(ConnectedTo(N)) <= 1
        /\ ConnectedTo(N) # {} =>
              /\ N \in DOMAIN registry
              /\ spc[registry[N]] = "running"
              /\ EventsHandled(N) =>
                    /\ N \in DOMAIN manager_sessions
                    /\ spc[manager_sessions[N]] = "running"

\* C19 (as claimed): a session whose task is over after it registered its
\* channel holds no registry entry any more and has sent as many Disconnected
\* events as Connected events
C19_CleanupOnEveryExit ==
    \A s \in Sessions :
        (spc[s] \in {"ended", "failed"} /\ connected_sent[s] # <<>>) =>
            /\ \A N \in DOMAIN registry : registry[N] # s
            /\ Len(disconnected_sent[s]) = Len(connected_sent[s])

\* C20: a session with a certificate node ID and verification on registers its
\* channel and sends Connected and Disconnected only under the certificate's
\* node ID, and a HELLO with another src_node ends the session
C20_OnlyCertificateIdRegistered ==
    \A s \in Sessions :
        (verify_node_id[s] /\ tls_node_id[s] # None) =>
            /\ \A i \in DOMAIN connected_sent[s] : connected_sent[s][i] = tls_node_id[s][1]
            /\ \A N \in DOMAIN registry : registry[N] = s => N = tls_node_id[s][1]
            /\ \A i \in DOMAIN disconnected_sent[s] :
                  disconnected_sent[s][i] \in {None, tls_node_id[s]}
            /\ (\E i \in DOMAIN hellos[s] : hellos[s][i] # tls_node_id[s][1])
                  => spc[s] = "failed"

\* a verifying session accepted the HELLO that matched its certificate and was
\* then ended by a HELLO that did not
C20_MismatchAfterMatch ==
    \E s \in Sessions :
        /\ verify_node_id[s] /\ tls_node_id[s] # None
        /\ connected_sent[s] # <<>>
        /\ spc[s] = "failed"
        /\ \E i \in DOMAIN hellos[s] : hellos[s][i] # tls_node_id[s][1]

\* C21 (as claimed): handling a message that could not be routed to a node
\* reports the node interrupted only when its failure count has reached the
\* threshold and it is not reported interrupted already; handling a message
\* that was sent on to a node reports the node recovered if and only if it
\* was reported interrupted, and leaves it without a failure count
C21_InterruptedAtThreeRecoveredOnSuccess ==
    [][routed' = routed + 1 =>
          LET dst_node == last_routed'[1].dst_node
          IN IF last_routed'[1].sent
             THEN /\ (<<"recovered", dst_node>> \in notifications') = (dst_node \in interrupted)
                  /\ dst_node \notin DOMAIN failures'
             ELSE \A e \in notifications' :
                     /\ e = <<"interrupted", dst_node>>
                     /\ dst_node \notin interrupted
                     /\ failures'[dst_node].count = failure_threshold]_vars
\* C22: the log of a peer holds strictly increasing message ids without gaps:
\* an append only succeeds with the id that follows last_appended.
C22_WalIncreasingWithoutGaps ==
    /\ \A i \in 1..(Len(wal_entries) - 1) :
           wal_entries[i + 1].msg_id = wal_entries[i].msg_id + 1
    /\ wal_entries # <<>> => wal_last_appended = wal_entries[Len(wal_entries)].msg_id

\* C23: once mark_processed was called for an id, is_processed answers true
\* for it at every later time (an id beyond the gap window counts as processed).
C23_MarkedStaysProcessed ==
    \A msg_id \in marked_ids : IsProcessed(msg_id)

\* C24: cum_processed + 1 is never left in the gap set and the gap set holds
\* only ids above cum_processed.
C24_ContiguousGapsAbsorbed ==
    /\ (dedup_cum + 1) \notin dedup_gaps
    /\ \A gap_id \in dedup_gaps : gap_id > dedup_cum

\* C24 (part): cum_processed never decreases
C24_CumNeverDecreases ==
    [][dedup_cum' >= dedup_cum]_vars

\* C25: a send whose frame exceeds the maximum frame size appends nothing to
\* the WAL, writes nothing to the socket and queues nothing.
C25_OversizeSendLeavesNoTrace ==
    [][send_data(OversizePayload) =>
          /\ wal_entries' = wal_entries
          /\ wal_last_appended' = wal_last_appended
          /\ socket' = socket
          /\ pending_frames' = pending_frames]_vars

\* C25 witness: the first send on a connection with credits was oversize
C25_OversizeSendHappened ==
    /\ connected
    /\ next_msg_id = 2
    /\ credits_bytes > 0
    /\ wal_last_appended = 0
    /\ wal_entries = <<>>
    /\ socket = <<>>

AckExpected(n, key) ==
    /\ key \in DOMAIN received[n]
    /\ key[2] \in DOMAIN records[key[1]]
    /\ records[key[1]][key[2]].require_ack

\* C27: an Ack for a message that was not delivered to a local subscriber with
\* require_ack changes no status and sends no status frame.
C27_OtherAcksRejected ==
    [][\A n \in Nodes :
          \A key \in (DOMAIN acked_messages'[n]) \ (DOMAIN acked_messages[n]) :
              ~AckExpected(n, key) => records' = records /\ outbound' = outbound]_vars

\* the WaitForDelivery send of message m at node n is blocked in wait_for_status
WaitingForDelivery(n, m) ==
    /\ m \in DOMAIN waiter[n]
    /\ waiter[n][m].mode = "WaitForDelivery"
    /\ waiter[n][m].result = "waiting"

\* C28: a blocked WaitForDelivery send returns as soon as the record reaches
\* Delivered, PendingClient or Undeliverable: once one of them is reached while
\* the call is blocked, the call returns one of them and not the timeout.
C28_ReturnsReachedStatus ==
    \A n \in Nodes : \A m \in MeshMsgIds :
        [](/\ WaitingForDelivery(n, m)
           /\ m \in DOMAIN records[n]
           /\ records[n][m].status \in target_statuses("WaitForDelivery")
           => [](m \in DOMAIN waiter[n] => waiter[n][m].result # "Timeout"))

\* C29: when the manager sees the node become routable, every queued message
\* that waits for the node (status PendingNode) has next_retry_at reset to now;
\* when a delivery report shows that a subscriber appeared, so has every queued
\* message that waits for a subscriber (status PendingClient).
C29_WaitingMessagesRetriedAtOnce ==
    [][/\ (~routable /\ routable') =>
              \A m \in DOMAIN queued_msgs :
                  queue_status[m] = "PendingNode" =>
                      m \in DOMAIN queued_msgs' /\ queued_msgs'[m].next_retry_at <= queue_now
       /\ (\E d \in DOMAIN queue_status :
               queue_status[d] # "Delivered" /\ queue_status'[d] = "Delivered") =>
              \A m \in DOMAIN queued_msgs :
                  queue_status[m] = "PendingClient" /\ queue_status'[m] = "PendingClient" =>
                      m \in DOMAIN queued_msgs' /\ queued_msgs'[m].next_retry_at <= queue_now
      ]_vars

\* C30: a record is evicted only when it has had its terminal status for at
\* least the retention of 5 minutes.
C30_EvictedOnlyAfterRetention ==
    [][\A m \in (DOMAIN tracked) \ (DOMAIN tracked') :
          /\ is_completed(tracked[m].status)
          /\ tracked[m].completed_at # None
          /\ track_now' - tracked[m].completed_at[1] >= CLEANUP_RETENTION_SECONDS]_vars

\* C31: a routing decision never answers NoRoute for a destination that has a
\* route both in the table the last refresh started from and in the computed
\* routes of that refresh.
C31_DecisionSeesOldOrNewRoutes ==
    [][rt_decisions' # rt_decisions =>
          (rt_decision'[1] \in DOMAIN rt_old /\ rt_decision'[1] \in DOMAIN rt_new
               => rt_decision'[2] # "NoRoute")]_vars

\* C32: the records of a node are left unchanged by the routing of a data
\* frame that another node originated and by an Ack for a message received
\* from another node.
C32_RecordChangedOnlyByOwnMessage ==
    [][\A n \in Nodes :
          /\ (/\ link[n] # <<>>
              /\ link'[n] = Tail(link[n])
              /\ Head(link[n]).message.kind = "data"
              /\ Head(link[n]).message.src # n) => records'[n] = records[n]
          /\ \A key \in (DOMAIN acked_messages'[n]) \ (DOMAIN acked_messages[n]) :
                 key[1] # n => records'[n] = records[n]]_vars

\* C33: a record whose status is terminal keeps that status in every step.
C33_TerminalStatusKept ==
    [][\A n \in Nodes : \A m \in DOMAIN records[n] :
          Terminal(records[n][m]) =>
              /\ m \in DOMAIN records'[n]
              /\ records'[n][m].status = records[n][m].status]_vars

\* C34: a message whose delivered or ack feedback has been handled is absent
\* from the pending queue whenever the retry processor is not in the middle of
\* retrying it.
C34_RemovedStaysRemoved ==
    \A m \in rq_fed :
        (rq_held = None \/ rq_held[1][1] # m) => m \notin DOMAIN rq_pending

\* C35: once every spawned update task has finished, the local record lists
\* exactly the connected neighbours and the routing table holds the routes
\* computed from that record.
C35_UpdatesAppliedInEventOrder ==
    (ev_tasks # <<>> /\ \A t \in DOMAIN ev_tasks : ev_tasks[t].pc = "done") =>
        /\ ev_record.neighbors = connected_neighbors
        /\ ev_table = update_routes_from_topology(compute_routes(LocalDb(ev_record)))


\* every connected peer holds, for every other node the local node knows and
\* for the local node itself, the record the local database holds
SyConverged ==
    \A p \in sy_connected :
        \A n \in DOMAIN sy_nodes \ {p} :
            /\ n \in DOMAIN sy_peer_nodes[p]
            /\ sy_peer_nodes[p][n] = sy_nodes[n]

\* C36: once sessions no longer connect or disconnect, every node comes to
\* hold the latest record of every node in reach; a newly connected peer gets
\* the snapshot and the local update sent on its connection
C36_PeersConverge == <>[]SyConverged

\* C37: the local node's record is written by local neighbour changes alone:
\* no received TopologyUpdate replaces it, one that names the local node as
\* its originator included
C37_ReceivedUpdateKeepsLocalRecord ==
    [][SySnapshot =>
         /\ local_node_id \in DOMAIN sy_nodes' <=> local_node_id \in DOMAIN sy_nodes
         /\ local_node_id \in DOMAIN sy_nodes => sy_nodes'[local_node_id] = sy_nodes[local_node_id]]_vars

\* C38: a complete frame in the read buffer is decoded and dispatched in the
\* end, also when the peer writes nothing more
C38_BufferedFrameDispatched ==
    (decode(read_buffer) # <<>>) ~> (decode(read_buffer) = <<>>)

\* C39: every msg_id send_data has allocated is in the WAL: the next msg_id is
\* the one after the last appended, and the msg_ids of the WAL have no gaps
C39_AllocatedIdsInWal ==
    /\ next_msg_id = wal_last_appended + 1
    /\ \A i \in 1..(Len(wal_entries) - 1) :
           wal_entries[i + 1].msg_id = wal_entries[i].msg_id + 1

\* C40: a session passes on no MessageReceived and no TopologyUpdate event
\* before it has read the peer's Hello and sent Connected
C40_NothingSurfacedBeforeConnected ==
    \A e \in surfaced : e.connected
====
